---- MODULE Spec2Model ----
(***************************************************************************)
(* A model of `turbo run`: the engine walks the task graph with bounded    *)
(* concurrency, each visited task goes through execContext.exec (restore   *)
(* from cache, or spawn the child and save its outputs), the cache is the  *)
(* asyncCache wrapper around the real cache, and RealRun folds the         *)
(* returned errors into the aggregate exit code and shuts the cache down.  *)
(***************************************************************************)
EXTENDS Integers, Sequences, FiniteSets, TLC

\* ---------------------------------------------------------------- bounds
NumTasks == 3
MaxConcurrency == 2
NumHashes == 2
NumWorkers == 1
MaxExitCode == 2
NumKeys == 1
NumFiles == 2
NumContents == 2
MaxDuration == 2
MaxPuts == 2
MaxTarLen == 2
NumRequests == 3
NumPkgs == 2
NumTaskNames == 2
MaxPackageTaskDeps == 1
MaxPersistent == 1
NumFileVersions == 2
NumPassNames == 2
NumPassValues == 2
NumRuns == 2

\* Go reports the exit code of a child killed by a signal as -1.
SignalExit == -1

Tasks == 1..NumTasks
Hashes == 1..NumHashes
WorkerIds == 1..NumWorkers
ExitCodes == {SignalExit} \cup (1..MaxExitCode)

\* ------------------------------------------------------------ task graph
\* engine.TaskGraph: deps[t] are the down edges of t.  Edges only point to
\* lower-numbered tasks, so every graph of the family is acyclic.
DepChoices(t) == IF t = 1 THEN {{}} ELSE {{}, {t - 1}, 1..(t - 1)}

TaskGraphs == {g \in [Tasks -> SUBSET Tasks] : \A t \in Tasks : g[t] \in DepChoices(t)}

\* packageTask.Hash of every task.  Hashes are interchangeable, so the first
\* task takes the first one.
TaskHashes == {f \in [Tasks -> Hashes] : f[1] = 1}

VARIABLES
    continueOnError,  \* rs.Opts.runOpts.ContinueOnError
    concurrency,      \* rs.Opts.runOpts.Concurrency
    dryRun,           \* rs.Opts.runOpts.dryRun
    deps,             \* engine.TaskGraph
    hash,             \* packageTask.Hash
    pc,               \* where each task's visit is
    taskErr,          \* the error a task's exec is about to return
    errored,          \* the engine's stop flag
    errs,             \* what engine.Execute returns, in completion order
    closing,          \* process.Manager is closing
    children,         \* process.Manager's live children
    spawned,          \* tasks for which a child process was started
    restored,         \* what RestoreOutputs reported for each task
    execution,        \* the taskExecutionSummary of each task
    putsOf,           \* number of cache.Put calls made for each task
    taskSummaries,    \* per task, records appended to RealRun's taskSummaries
    requests,         \* asyncCache.requests: the request each worker holds
    closed,           \* asyncCache.requests has been closed
    wg,               \* asyncCache.wg
    store,            \* the real cache: hashes with a stored artifact
    accepted,         \* per hash, puts handed to a worker
    applied,          \* per hash, realCache.Put calls made
    runPc,            \* where RealRun / DryRun is
    exitCode,         \* RealRun's aggregate exit code
    legacyExitCode,   \* executeTasks' aggregate exit code
    workTree,         \* fsCache: the files under repoRoot / target, by content
    cachedFolder,     \* fsCache: per hash, the files under cacheDirectory/hash
    metaFile,         \* fsCache: per hash, cacheDirectory/hash-meta.json
    putPc,            \* fsCache.Put: where the call is
    putReq,           \* fsCache.Put: its arguments and the files still queued
    lastPut,          \* per hash, the last Put that returned nil
    artifacts,        \* per hash, what the Puts that returned nil were given
    numPuts,          \* number of Put calls made
    fetchPc,          \* fsCache.Fetch: where the call is
    fetchRes,         \* fsCache.Fetch: its hash, what it copied and what it returns
    tarEntries,       \* restoreTar: the entries of the tar, in order
    tarPos,           \* restoreTar: the entry it is at
    tarPc,            \* restoreTar: restoring, failed (error returned) or done
    restoreRoot,      \* restoreTar: the files under the restore root
    outsideFile,      \* restoreTar: a file next to the restore root
    rootBefore,       \* the files under the root when restoreTar was called
    outsideBefore,    \* the outside file when restoreTar was called
    remoteDisabled,   \* the server answers 403 remote_caching_disabled
    useRemote,        \* the HTTP cache is still one of the caches in use
    reqPc,            \* per cache request (a fetch or a put), where it is
    onceDone,         \* executeTasks' sync.Once: its function has run
    onceHolder,       \* executeTasks' sync.Once: the request running its function
    warnings,         \* number of "Remote Caching is unavailable" warnings logged
    topoGraph,        \* g.TopologicalGraph: per package, the packages it depends on
    topoDepsOf,       \* pipeline: per task name, its TopologicalDependencies
    taskDepsOf,       \* pipeline: per task name, its TaskDependencies
    packageTaskDeps,  \* the edges registered with engine.AddDep
    persistent,       \* the tasks whose definition has Persistent set
    filteredPkgs,     \* rs.FilteredPkgs
    targets,          \* rs.Targets
    tasksOnly,        \* rs.Opts.runOpts.only
    parallel,         \* rs.Opts.runOpts.parallel
    workspaceGraph,   \* the workspace graph as it was discovered
    graphPc,          \* runOperation: building, rejected, built or executed
    taskNodes,        \* engine.TaskGraph: its vertices, ROOT left out
    taskEdges,        \* engine.TaskGraph: its edges
    prepareErr,       \* the error buildTaskGraph returned
    visited,          \* the tasks engine.Execute visited
    pipelineKeys,     \* turboJSON.Pipeline: its keys
    cliTargets,       \* the task names given on the command line
    cmdPc,            \* RunCommand.Run: where it is
    cmdExit,          \* RunCommand.Run: what it returns
    tasksHashed,      \* CalculateFileHashes was called
    tasksRun,         \* executeTasks was called
    hashInputs,       \* per run, the GlobalHashableInputs
    environ,          \* per run, the value the pass-through variables have in os.Environ
    globalHash,       \* per run, the global hash, once computed
    turboConfig,      \* what turbo.json says about the script that is run
    runNo,            \* the run that is going on
    rerunPc,          \* where the run is: start, hashed or finished
    cacheArtifacts,   \* the task hashes the cache has an artifact for
    cacheStatus,      \* per run, what the cache lookup of the task gave
    executedIn,       \* the runs in which the script was executed
    succeededIn,      \* the runs in which the script exited with 0
    EnvAtExecutionStart,\* the environment of turbo when the run started
    taskEnvMode,      \* packageTask.EnvMode
    globalEnv,        \* the names of the global hashed env vars
    taskEnv,          \* the names of the task's hashed env vars
    globalPassThroughEnv,\* the names of the global pass-through list
    PassThroughEnv,   \* packageTask.TaskDefinition.PassThroughEnv
    envPc,            \* exec: the command is being set up, or was started
    cmdEnv,           \* cmd.Env
    cacheState,       \* dry run: per task, what turboCache.Exists answered
    hashFails,        \* CalculateTaskHash returns an error for the task
    scriptExists,     \* pt.Command(): the package has the script
    artifactStore,    \* the hashes the cache has an artifact for
    execPc,           \* execContext.exec: where it is
    execHash,         \* exec: hash
    hashingErrors,    \* number of "Hashing error" lines written to the ui
    lookedUp,         \* the hashes RestoreOutputs looked up
    savedOutputs,     \* the hashes SaveOutputs was called for
    commandRun,       \* the command was handed to processes.Exec
    tracerResult,     \* what the tracer was told about the task
    outcome,          \* per task, what ec.exec does with it
    summaryPc,        \* per task, where its execFunc call is
    taskSummaryMutex, \* taskSummaryMutex: the worker that holds it
    summaries,        \* RealRun's taskSummaries slice
    appendOld,        \* per task, the slice its append read
    closedTasks,      \* per task, number of runSummary.CloseTask calls
    hashGlobs,        \* GlobWatcher.hashGlobs: per hash, its unchanged globs
    globStatus,       \* GlobWatcher.globStatus: per glob, the hashes it is unchanged for
    watcherClosed,    \* GlobWatcher.closed
    call,             \* per caller, the WatchGlobs or GetChangedGlobs call it is in, or its result
    registered,       \* history: per hash, the globs WatchGlobs has registered for it
    changedSince,     \* history: per hash, the globs changed since they were last registered
    spacePc,          \* per request, where it is: queued, pending, or in its goroutine
    spacesWg,         \* spacesClient.wg
    pending,          \* start: the pending requests
    firstRequestStarted,\* start: firstRequestStarted
    loopPc,           \* start: in the first loop, in the second, or returned
    runCreated,       \* spacesClient.runCreated is closed
    requestsClosed,   \* spacesClient.requests is closed
    runID,            \* spacesClient.run.ID is set
    spaceErrors,      \* len(spacesClient.errors)
    errorsOld,        \* per request, the length of errors its append read
    apiCalls,         \* history: the requests handed to the API client
    completed,        \* history: the requests whose API call has returned
    closePc,          \* spacesClient.Close: not called, waiting, or returned
    logPc,            \* per task, where its execFunc call is
    logChan,          \* logChan: the buffers sent and not yet received
    logChanClosed,    \* logChan is closed
    logWriterPc,      \* the writer goroutine: receiving, writing, or returned
    logContext,       \* the writer goroutine: the task whose buffers it holds
    logOutput,        \* what was written to os.Stdout and os.Stderr, in order
    logMainPc         \* RealRun: in Execute, waiting for the writer, or past it

vars == <<continueOnError, concurrency, dryRun, deps, hash, pc, taskErr, errored,
          errs, closing, children, spawned, restored, execution, putsOf, taskSummaries,
          requests, closed, wg, store, accepted, applied, runPc, exitCode, legacyExitCode,
          workTree, cachedFolder, metaFile, putPc, putReq, lastPut, artifacts, numPuts,
          fetchPc, fetchRes, tarEntries, tarPos, tarPc, restoreRoot, outsideFile,
          rootBefore, outsideBefore, remoteDisabled, useRemote, reqPc, onceDone,
          onceHolder, warnings, topoGraph, topoDepsOf, taskDepsOf, packageTaskDeps,
          persistent, filteredPkgs, targets, tasksOnly, parallel, workspaceGraph,
          graphPc, taskNodes, taskEdges, prepareErr, visited,
          pipelineKeys, cliTargets, cmdPc, cmdExit, tasksHashed, tasksRun,
          hashInputs, environ, globalHash,
          turboConfig, runNo, rerunPc, cacheArtifacts, cacheStatus, executedIn, succeededIn,
          EnvAtExecutionStart, taskEnvMode, globalEnv, taskEnv, globalPassThroughEnv, PassThroughEnv, envPc, cmdEnv,
          cacheState,
          hashFails, scriptExists, artifactStore, execPc, execHash, hashingErrors, lookedUp, savedOutputs, commandRun, tracerResult,
          outcome, summaryPc, taskSummaryMutex, summaries, appendOld, closedTasks,
          hashGlobs, globStatus, watcherClosed, call, registered, changedSince,
          spacePc, spacesWg, pending, firstRequestStarted, loopPc, runCreated, requestsClosed, runID, spaceErrors, errorsOld, apiCalls, completed, closePc,
          logPc, logChan, logChanClosed, logWriterPc, logContext, logOutput, logMainPc>>

optVars == <<continueOnError, concurrency, dryRun, deps, hash>>
taskVars == <<pc, taskErr, restored, execution, putsOf, taskSummaries>>
engVars == <<errored, errs>>
procVars == <<closing, children, spawned>>
cacheVars == <<requests, closed, wg, store, accepted, applied>>
runVars == <<runPc, exitCode, legacyExitCode>>
dryVars == <<cacheState>>
fsVars == <<workTree, cachedFolder, metaFile, putPc, putReq, lastPut, artifacts, numPuts,
            fetchPc, fetchRes>>
tarVars == <<tarEntries, tarPos, tarPc, restoreRoot, outsideFile, rootBefore, outsideBefore>>
remoteVars == <<remoteDisabled, useRemote, reqPc, onceDone, onceHolder, warnings>>
graphVars == <<topoGraph, topoDepsOf, taskDepsOf, packageTaskDeps, persistent, filteredPkgs,
               targets, tasksOnly, parallel, workspaceGraph, graphPc, taskNodes, taskEdges,
               prepareErr, visited>>

cmdVars == <<pipelineKeys, cliTargets, cmdPc, cmdExit, tasksHashed, tasksRun>>

hashVars == <<hashInputs, environ, globalHash>>

rerunVars == <<turboConfig, runNo, rerunPc, cacheArtifacts, cacheStatus, executedIn, succeededIn>>

envVars == <<EnvAtExecutionStart, taskEnvMode, globalEnv, taskEnv, globalPassThroughEnv, PassThroughEnv, envPc, cmdEnv>>

execVars == <<hashFails, scriptExists, artifactStore, execPc, execHash, hashingErrors, lookedUp, savedOutputs, commandRun, tracerResult>>

summaryVars == <<outcome, summaryPc, taskSummaryMutex, summaries, appendOld, closedTasks>>

watcherVars == <<hashGlobs, globStatus, watcherClosed, call, registered, changedSince>>

spacesVars == <<spacePc, spacesWg, pending, firstRequestStarted, loopPc, runCreated, requestsClosed, runID, spaceErrors, errorsOld, apiCalls, completed, closePc>>

logVars == <<logPc, logChan, logChanClosed, logWriterPc, logContext, logOutput, logMainPc>>

\* The state of the components that are modelled on their own, which a run
\* leaves alone.
unitVars == <<fsVars, tarVars, remoteVars, graphVars, cmdVars, hashVars, rerunVars, envVars, execVars, summaryVars, watcherVars, spacesVars, logVars>>

NoErr == [kind |-> "none", code |-> 0]
ChildExit(c) == [kind |-> "exit", code |-> c]
OtherErr == [kind |-> "other", code |-> 0]

NoExecution == [state |-> "none", exitCode |-> 0, hasExit |-> FALSE]

\* ------------------------------------------------- fsCache: its state
Keys == 1..NumKeys
Files == 1..NumFiles
Contents == 1..NumContents
Durations == 1..MaxDuration

\* A tree of files: the content of each file, 0 where there is no file.
NoFiles == [f \in Files |-> 0]

Trees == [Files -> Contents \cup {0}]

\* The files a tree holds.
FilesOf(tree) == {f \in Files : tree[f] # 0}

NoMeta == [state |-> "absent", duration |-> 0]

NoPut == [hash |-> 0, files |-> {}, duration |-> 0, queue |-> {}, tree |-> NoFiles,
          failed |-> FALSE]

NoPutRecord == [made |-> FALSE, tree |-> NoFiles, duration |-> 0, metaWritten |-> FALSE]

NoFetch == [hash |-> 0, copied |-> NoFiles, meta |-> "unread", hit |-> FALSE,
            err |-> FALSE, duration |-> 0, afterPut |-> NoPutRecord]

\* newFsCache: an empty cache directory; no call is under way.
FsEmpty ==
    /\ cachedFolder = [h \in Keys |-> NoFiles]
    /\ metaFile = [h \in Keys |-> NoMeta]
    /\ putPc = "idle"
    /\ putReq = NoPut
    /\ lastPut = [h \in Keys |-> NoPutRecord]
    /\ artifacts = [h \in Keys |-> {}]
    /\ numPuts = 0
    /\ fetchPc = "idle"
    /\ fetchRes = NoFetch

\* The fsCache of a run that is not looked into.
FsIdle ==
    /\ workTree = NoFiles
    /\ FsEmpty

\* ---------------------------------------------- restoreTar: its state
\* A tar entry: a regular file with its content, whose name is either a path
\* under the restore root or one that leads out of it (../some-file).
InsideEntries == [escapes : {FALSE}, file : Files, content : Contents]

EscapingEntries == [escapes : {TRUE}, file : {1}, content : Contents]

Tars == UNION {[1..n -> InsideEntries \cup EscapingEntries] : n \in 0..MaxTarLen}

\* No restore is looked into.
TarIdle ==
    /\ tarEntries = <<>>
    /\ tarPos = 1
    /\ tarPc = "restoring"
    /\ restoreRoot = NoFiles
    /\ outsideFile = 0
    /\ rootBefore = NoFiles
    /\ outsideBefore = 0

\* ------------------------------------------ the remote cache: its state
Requests == 1..NumRequests

\* cache.New with the HTTP cache in use: no request was made, the
\* sync.Once is fresh, nothing was logged.
RemoteStart ==
    /\ useRemote = TRUE
    /\ reqPc = [r \in Requests |-> "idle"]
    /\ onceDone = FALSE
    /\ onceHolder = 0
    /\ warnings = 0

\* No remote cache is looked into.
RemoteIdle ==
    /\ remoteDisabled = FALSE
    /\ RemoteStart

\* ------------------------------------------ the task graph builder: its state
Pkgs == 1..NumPkgs
TaskNames == 1..NumTaskNames

\* util.GetTaskId(pkg, task): the task id pkg#task.
GetTaskId(pkg, task) == <<pkg, task>>

TaskIds == {GetTaskId(pkg, task) : pkg \in Pkgs, task \in TaskNames}

\* The synthetic ___ROOT___ vertex of the task graph.
ROOT_NODE_NAME == <<0, 0>>

\* The workspace graphs: a package depends on packages discovered before it,
\* so every workspace graph of the family is acyclic.
WorkspaceGraphs == {g \in [Pkgs -> SUBSET Pkgs] : \A p \in Pkgs : g[p] \subseteq 1..(p - 1)}

\* The edges a pipeline registers with engine.AddDep: a package task that
\* depends on a package task of another package.
PackageTaskEdges == {e \in TaskIds \X TaskIds : e[1][1] # e[2][1]}

\* The requested targets.  Task names are interchangeable, so the first
\* target is the first name.
TargetChoices == {T \in SUBSET TaskNames : 1 \in T}

NoPrepareErr == [kind |-> "none", task |-> ROOT_NODE_NAME, dependent |-> ROOT_NODE_NAME]

\* runOperation before it calls buildTaskGraph.
GraphStart ==
    /\ graphPc = "building"
    /\ taskNodes = {}
    /\ taskEdges = {}
    /\ prepareErr = NoPrepareErr
    /\ visited = {}

\* No task graph is looked into.
GraphIdle ==
    /\ topoGraph = [p \in Pkgs |-> {}]
    /\ topoDepsOf = [n \in TaskNames |-> {}]
    /\ taskDepsOf = [n \in TaskNames |-> {}]
    /\ packageTaskDeps = {}
    /\ persistent = {}
    /\ filteredPkgs = {1}
    /\ targets = {1}
    /\ tasksOnly = FALSE
    /\ parallel = FALSE
    /\ workspaceGraph = topoGraph
    /\ GraphStart

\* -------------------------------------------- the run command: its state
\* A key of the pipeline: a bare task name, written <<0, task>>, or a
\* package task pkg#task.
BareKey(task) == <<0, task>>

PipelineKeys == {BareKey(task) : task \in TaskNames} \cup TaskIds

\* run before validateTasks.
CmdStart ==
    /\ cmdPc = "start"
    /\ cmdExit = 0
    /\ tasksHashed = FALSE
    /\ tasksRun = FALSE

\* No run command is looked into.
CmdIdle ==
    /\ pipelineKeys = {}
    /\ cliTargets = {1}
    /\ CmdStart

\* ------------------------------------------ the global hash: its state
FileVersions == 1..NumFileVersions
PassNames == 1..NumPassNames
PassValues == 1..NumPassValues
Runs == 1..NumRuns

\* util.EnvMode
EnvModes == {"infer", "loose", "strict"}

\* envVarPassthroughs []string: nil, or a list of names, which may be empty.
NilPassthroughs == [isNil |-> TRUE, names |-> {}]
ListOf(names) == [isNil |-> FALSE, names |-> names]
PassthroughLists == {NilPassthroughs} \cup {ListOf(names) : names \in SUBSET PassNames}

\* GlobalHashableInputs: what is in the global files, the pass-through list
\* and the env mode.  The other fields do not vary here.
GlobalHashableInputs ==
    [globalFileHashMap : FileVersions, envVarPassthroughs : PassthroughLists,
     envMode : EnvModes]

\* No hash was computed.
NoHash == <<0, TRUE, {}, "none">>

\* No global hash is looked into.
HashIdle ==
    /\ hashInputs = [r \in Runs |-> [globalFileHashMap |-> 1,
                                     envVarPassthroughs |-> NilPassthroughs,
                                     envMode |-> "infer"]]
    /\ environ = [r \in Runs |-> 1]
    /\ globalHash = [r \in Runs |-> NoHash]

\* ------------------------------------------- two runs of a task: their state
\* What turbo.json says about the script of package.json that is run: there
\* is no turbo.json, the pipeline has no entry for it, or its entry leaves
\* cache out, sets it to false or sets it to true.
TurboConfigs == {"absent", "no-entry", "cache-unset", "cache-false", "cache-true"}

\* The first run of a fresh checkout, before anything is hashed.
RerunStart ==
    /\ runNo = 1
    /\ rerunPc = "start"
    /\ cacheArtifacts = {}
    /\ cacheStatus = [r \in Runs |-> "none"]
    /\ executedIn = {}
    /\ succeededIn = {}

\* No task is run twice.
RerunIdle ==
    /\ turboConfig = "cache-unset"
    /\ RerunStart

\* ------------------------------------- the child's environment: its state
\* The variables of the environment: the default pass-throughs, two that a
\* configuration may name, and the one exec sets itself.
EnvNames == {"PATH", "SHELL", "SYSTEMROOT", "A", "B", "TURBO_HASH"}

\* The names a configuration may declare.
DeclarableNames == {"A", "B"}

\* An environment gives a variable a value, or 0 when it is not set.  The
\* parent's variables that are set have the value 1.
Unset == 0
ParentEnvs == [EnvNames -> {Unset, 1}]

\* The value exec gives TURBO_HASH: the hash of the task.
HashValue == 2

EmptyEnv == [n \in EnvNames |-> Unset]

\* exec before the command is set up.
EnvStart ==
    /\ envPc = "setup"
    /\ cmdEnv = EmptyEnv

\* No child's environment is looked into.
EnvIdle ==
    /\ EnvAtExecutionStart = EmptyEnv
    /\ taskEnvMode = "loose"
    /\ globalEnv = {}
    /\ taskEnv = {}
    /\ globalPassThroughEnv = {}
    /\ PassThroughEnv = {}
    /\ EnvStart

\* ----------------------------------------- execContext.exec: its state
\* The hashes a task may have; the empty string is what a failed
\* CalculateTaskHash may leave in hash.
NumExecHashes == 2
EmptyHash == 0
ExecHashes == 1..NumExecHashes

\* exec before it hashes the task.
ExecStart ==
    /\ execPc = "start"
    /\ execHash = EmptyHash
    /\ hashingErrors = 0
    /\ lookedUp = {}
    /\ savedOutputs = {}
    /\ commandRun = FALSE
    /\ tracerResult = "none"

\* No exec is looked into.
ExecIdle ==
    /\ hashFails = FALSE
    /\ scriptExists = FALSE
    /\ artifactStore = {}
    /\ ExecStart

\* --------------------------------------------- RealRun.execFunc: its state
\* The tasks whose execFunc calls run side by side.
NumSummaryTasks == 3
SummaryTasks == 1..NumSummaryTasks

\* What exec does with a task: the script does not exist, the command could
\* not be set up, the outputs were restored, the command ran and succeeded,
\* or it ran and failed.
ExecOutcomes == {"nonexistent", "unstarted", "cached", "built", "failed"}

\* The outcomes for which the task was run.
WasRun == {"cached", "built", "failed"}

\* No worker holds the mutex.
Unlocked == 0

\* RealRun before the engine calls execFunc.
SummaryStart ==
    /\ summaryPc = [t \in SummaryTasks |-> "exec"]
    /\ taskSummaryMutex = Unlocked
    /\ summaries = <<>>
    /\ appendOld = [t \in SummaryTasks |-> <<>>]
    /\ closedTasks = [t \in SummaryTasks |-> 0]

\* No execFunc is looked into.
SummaryIdle ==
    /\ outcome = [t \in SummaryTasks |-> "nonexistent"]
    /\ SummaryStart

\* ------------------------------------------------- GlobWatcher: its state
\* The hashes, the globs and the repo-relative paths the watcher sees.
NumGlobHashes == 2
NumGlobs == 2
NumPaths == 2
NumCallers == 1
GlobHashes == 1..NumGlobHashes
Globs == 1..NumGlobs
RepoPaths == 1..NumPaths
Callers == 1..NumCallers

\* A path that is not under the repo root: RelativePathString fails.
OutsidePath == 0

\* doublestar.Match: glob g matches the paths from g on, so the first glob
\* matches every path and each further one fewer.
Match(g, p) == p >= g

\* A key that a map does not have.
NoEntry == [ok |-> FALSE, set |-> {}]

\* A caller that is in no call.
NoCall == [pc |-> "idle", op |-> "none", hash |-> 1, globs |-> {}, err |-> "nil",
           changed |-> {}]

\* The watcher New returns, with no call made.
WatcherStart ==
    /\ hashGlobs = [h \in GlobHashes |-> NoEntry]
    /\ globStatus = [g \in Globs |-> NoEntry]
    /\ watcherClosed = FALSE
    /\ call = [c \in Callers |-> NoCall]
    /\ registered = [h \in GlobHashes |-> {}]
    /\ changedSince = [h \in GlobHashes |-> {}]

\* No watcher is looked into.
WatcherIdle == WatcherStart

\* ----------------------------------------------- spacesClient: its state
\* The requests of a run: the first is the run creation (createRun), the
\* others are made with makeURL (postTask, finishRun).
NumSpaceRequests == 3
SpaceRequests == 1..NumSpaceRequests
CreateRun == 1

\* The client newSpacesClient returns, with start running and nothing queued.
SpacesStart ==
    /\ spacePc = [r \in SpaceRequests |-> "new"]
    /\ spacesWg = 0
    /\ pending = {}
    /\ firstRequestStarted = FALSE
    /\ loopPc = "first"
    /\ runCreated = FALSE
    /\ requestsClosed = FALSE
    /\ runID = FALSE
    /\ spaceErrors = 0
    /\ errorsOld = [r \in SpaceRequests |-> 0]
    /\ apiCalls = {}
    /\ completed = {}
    /\ closePc = "idle"

\* No spaces client is looked into.
SpacesIdle == SpacesStart

\* ------------------------------------------------- grouped logs: state
\* The tasks of the graph whose output is grouped.
NumLogTasks == 3
LogTasks == 1..NumLogTasks

\* No task's buffers are with the writer.
NoLogContext == 0

\* RealRun with grouped log order, before engine.Execute.
LogStart ==
    /\ logPc = [t \in LogTasks |-> "waiting"]
    /\ logChan = <<>>
    /\ logChanClosed = FALSE
    /\ logWriterPc = "receive"
    /\ logContext = NoLogContext
    /\ logOutput = <<>>
    /\ logMainPc = "executing"

\* No grouped output is looked into.
LogIdle == LogStart

\* The state of a run before engine.Execute.
RunStart ==
    /\ pc = [t \in Tasks |-> "waiting"]
    /\ taskErr = [t \in Tasks |-> NoErr]
    /\ errored = FALSE
    /\ errs = <<>>
    /\ closing = FALSE
    /\ children = {}
    /\ spawned = {}
    /\ restored = [t \in Tasks |-> "none"]
    /\ execution = [t \in Tasks |-> NoExecution]
    /\ putsOf = [t \in Tasks |-> 0]
    /\ taskSummaries = [t \in Tasks |-> 0]
    /\ requests = [w \in WorkerIds |-> 0]
    /\ closed = FALSE
    /\ wg = NumWorkers
    /\ store = {}
    /\ accepted = [h \in Hashes |-> 0]
    /\ applied = [h \in Hashes |-> 0]
    /\ runPc = "executing"
    /\ exitCode = 0
    /\ legacyExitCode = 0
    /\ cacheState = [t \in Tasks |-> "unprobed"]

\* A run that is not looked into: it stays before engine.Execute.
RunIdle ==
    /\ continueOnError = FALSE
    /\ concurrency = 1
    /\ dryRun = FALSE
    /\ deps = [t \in Tasks |-> {}]
    /\ hash = [t \in Tasks |-> 1]
    /\ RunStart

Init ==
    /\ LogIdle
    /\ SpacesIdle
    /\ WatcherIdle
    /\ SummaryIdle
    /\ ExecIdle
    /\ EnvIdle
    /\ RerunIdle
    /\ HashIdle
    /\ CmdIdle
    /\ continueOnError \in BOOLEAN
    /\ concurrency \in 1..MaxConcurrency
    /\ dryRun \in BOOLEAN
    /\ deps \in TaskGraphs
    /\ hash \in TaskHashes
    /\ RunStart
    /\ FsIdle
    /\ TarIdle
    /\ RemoteIdle
    /\ GraphIdle

\* ------------------------------------------------------------ the engine
Terminal == {"done", "failed", "skipped"}

InFlight(t) == pc[t] \notin (Terminal \cup {"waiting"})

NumRunning == Cardinality({t \in Tasks : InFlight(t)})

\* Mutant: the dry run passes the configured concurrency as well.
ExecConcurrencyConfigured == concurrency

\* core.EngineExecutionOptions: a real run passes the configured
\* concurrency, a dry run hardcodes 1.
ExecConcurrency == IF dryRun THEN 1 ELSE concurrency

\* Mutant: a node is released as soon as one predecessor has completed.
DepsCompletedAny(t) == deps[t] = {} \/ \E d \in deps[t] : pc[d] = "done"

\* A node is released once every predecessor has completed successfully.
DepsCompleted(t) == \A d \in deps[t] : pc[d] = "done"

\* A node below a failed (or passed-over) node is never visited.
UpstreamFailed(t) == \E d \in deps[t] : pc[d] \in {"failed", "skipped"}

\* A concurrency slot is free.
SemaAvailable == NumRunning < ExecConcurrency

Eligible(t) ==
    /\ pc[t] = "waiting"
    /\ DepsCompleted(t)
    /\ ~errored
    /\ SemaAvailable

\* Mutant: a dry run is given the visitor of a real run.
ExecFuncOfRealRun(dry) == "restore"

\* The visitor a run gives the engine: dryRunExecFunc for a dry run, exec
\* otherwise.  It is where a task's visit starts.
ExecFuncOf(dry) == IF dry THEN "dry" ELSE "restore"

\* The engine hands task t to the visitor: exec starts (tracer, TargetBuilding),
\* or the dry-run visitor starts.
Visit(t) ==
    /\ runPc = "executing"
    /\ Eligible(t)
    /\ pc' = [pc EXCEPT ![t] = ExecFuncOf(dryRun)]
    /\ execution' = [execution EXCEPT ![t] =
                        IF dryRun THEN @
                        ELSE [state |-> "building", exitCode |-> 0, hasExit |-> TRUE]]
    /\ UNCHANGED <<unitVars, optVars, dryVars, taskErr, restored, putsOf, taskSummaries, engVars,
                   procVars, cacheVars, runVars>>

\* The engine passes over a task that must not run: a dependency failed, or
\* execution was stopped.
Skip(t) ==
    /\ runPc = "executing"
    /\ pc[t] = "waiting"
    /\ UpstreamFailed(t) \/ errored
    /\ pc' = [pc EXCEPT ![t] = "skipped"]
    /\ UNCHANGED <<unitVars, optVars, dryVars, taskErr, restored, execution, putsOf, taskSummaries,
                   engVars, procVars, cacheVars, runVars>>

\* ------------------------------------------------------ execContext.exec
\* execFunc appends the task summary when exec returned an execution summary.
Appended(t) == [taskSummaries EXCEPT ![t] = @ + 1]

\* Mutant: exec does not return on a cache hit.
AfterRestoreNoReturn(hit, err) == "spawn"

\* What exec does with the result of RestoreOutputs: an error is logged and
\* the task is executed; a hit returns at once; a miss executes.
AfterRestore(hit, err) ==
    IF err THEN "spawn" ELSE IF hit THEN "done" ELSE "spawn"

\* fsCache.Fetch by hash: a miss when the artifact is absent; when present
\* either a hit, or an error while moving it into place.
FetchOutcomes(h) ==
    IF h \in store THEN {[hit |-> TRUE, err |-> FALSE], [hit |-> FALSE, err |-> TRUE]}
    ELSE {[hit |-> FALSE, err |-> FALSE]}

RestoreOutputs(t) ==
    /\ pc[t] = "restore"
    /\ \E r \in FetchOutcomes(hash[t]) :
        LET next == AfterRestore(r.hit, r.err) IN
        /\ restored' = [restored EXCEPT ![t] =
                           IF r.err THEN "error" ELSE IF r.hit THEN "hit" ELSE "miss"]
        /\ pc' = [pc EXCEPT ![t] = next]
        /\ execution' = [execution EXCEPT ![t] =
                            IF next = "done"
                            THEN [state |-> "cached", exitCode |-> 0, hasExit |-> TRUE]
                            ELSE @]
        /\ taskSummaries' = IF next = "done" THEN Appended(t) ELSE taskSummaries
    /\ UNCHANGED <<unitVars, optVars, dryVars, taskErr, putsOf, engVars, procVars, cacheVars, runVars>>

\* Mutant: exec never wraps its error in core.StopExecution.
StopsExecutionNever(continue) == FALSE

\* Mutant: exec wraps its error in core.StopExecution whatever the options.
StopsExecutionAlways(continue) == TRUE

\* Does exec wrap the error it returns in core.StopExecution?
StopsExecution(continue) == ~continue

\* taskCache.OutputWriter fails: without continue-on-error exec returns
\* StopExecution at once, with no summary and without closing the process
\* manager; with it, exec carries on to run the command.
OutputWriterFails(t) ==
    /\ pc[t] = "spawn"
    /\ ~continueOnError
    /\ execution' = [execution EXCEPT ![t] =
                        [state |-> "failed", exitCode |-> 0, hasExit |-> FALSE]]
    /\ errs' = Append(errs, OtherErr)
    /\ errored' = (errored \/ StopsExecution(continueOnError))
    /\ pc' = [pc EXCEPT ![t] = "failed"]
    /\ UNCHANGED <<unitVars, optVars, dryVars, taskErr, restored, putsOf, taskSummaries, procVars,
                   cacheVars, runVars>>

\* processes.Exec(cmd): ErrClosing when the manager is closing (exec returns
\* its summary and nil), a started child, or a failure to start.
ProcessesExec(t) ==
    /\ pc[t] = "spawn"
    /\ \/ /\ closing
          /\ pc' = [pc EXCEPT ![t] = "done"]
          /\ taskSummaries' = Appended(t)
          /\ UNCHANGED <<taskErr, children, spawned, execution>>
       \/ /\ ~closing
          /\ pc' = [pc EXCEPT ![t] = "running"]
          /\ children' = children \cup {t}
          /\ spawned' = spawned \cup {t}
          /\ UNCHANGED <<taskErr, execution, taskSummaries>>
       \/ /\ ~closing
          /\ pc' = [pc EXCEPT ![t] = "failing"]
          /\ taskErr' = [taskErr EXCEPT ![t] = OtherErr]
          /\ execution' = [execution EXCEPT ![t] =
                              [state |-> "failed", exitCode |-> 0, hasExit |-> FALSE]]
          /\ UNCHANGED <<children, spawned, taskSummaries>>
    /\ UNCHANGED <<unitVars, optVars, dryVars, restored, putsOf, engVars, closing, cacheVars, runVars>>

\* Mutant: exec goes on to save the outputs whatever processes.Exec returned.
AfterCommandAlwaysSaves(err) == "save"

\* What exec does when processes.Exec has returned: with an error it
\* reports the failure and returns it, without one it saves the outputs.
AfterCommand(err) == IF err = NoErr THEN "save" ELSE "failing"

\* The child of t exits: with 0, with a failing code, or, the manager
\* closing, killed (ErrClosing: exec returns nil and records no error).
ChildExits(t) ==
    /\ pc[t] = "running"
    /\ children' = children \ {t}
    /\ \/ /\ pc' = [pc EXCEPT ![t] = AfterCommand(NoErr)]
          /\ execution' = [execution EXCEPT ![t] =
                              [state |-> "executed", exitCode |-> 0, hasExit |-> FALSE]]
          /\ UNCHANGED <<taskErr, taskSummaries>>
       \/ \E c \in ExitCodes :
            /\ pc' = [pc EXCEPT ![t] = AfterCommand(ChildExit(c))]
            /\ taskErr' = [taskErr EXCEPT ![t] = ChildExit(c)]
            /\ execution' = [execution EXCEPT ![t] =
                                [state |-> "failed", exitCode |-> c, hasExit |-> TRUE]]
            /\ UNCHANGED taskSummaries
       \/ /\ closing
          /\ pc' = [pc EXCEPT ![t] = "done"]
          /\ taskSummaries' = Appended(t)
          /\ UNCHANGED <<taskErr, execution>>
    /\ UNCHANGED <<unitVars, optVars, dryVars, restored, putsOf, engVars, closing, spawned, cacheVars,
                   runVars>>

\* The command finished with an error and continue-on-error is off:
\* ec.processes.Close().
ProcessesClose(t) ==
    /\ pc[t] = "failing"
    /\ ~continueOnError
    /\ closing' = TRUE
    /\ pc' = [pc EXCEPT ![t] = "closed"]
    /\ UNCHANGED <<unitVars, optVars, dryVars, taskErr, restored, execution, putsOf, taskSummaries,
                   engVars, children, spawned, cacheVars, runVars>>

\* exec returns its error to the engine, which records it and, for a
\* StopExecution, stops the walk.  Close has waited for the children.
ReturnError(t) ==
    /\ \/ pc[t] = "closed" /\ children = {}
       \/ pc[t] = "failing" /\ continueOnError
    /\ errs' = Append(errs, taskErr[t])
    /\ errored' = (errored \/ StopsExecution(continueOnError))
    /\ pc' = [pc EXCEPT ![t] = "failed"]
    /\ taskErr' = [taskErr EXCEPT ![t] = NoErr]
    /\ taskSummaries' = Appended(t)
    /\ UNCHANGED <<unitVars, optVars, dryVars, restored, execution, putsOf, procVars, cacheVars, runVars>>

\* exec closes the outputs and caches them: closeOutputs or SaveOutputs may
\* fail (logged, nothing is put); otherwise SaveOutputs calls cache.Put, which
\* is asyncCache.Put: a send on the unbuffered requests channel that returns
\* as soon as a worker has received the request.
SaveOutputs(t) ==
    /\ pc[t] = "save"
    /\ \/ UNCHANGED <<putsOf, requests, accepted>>
       \/ \E w \in WorkerIds :
            /\ ~closed
            /\ requests[w] = 0
            /\ requests' = [requests EXCEPT ![w] = hash[t]]
            /\ accepted' = [accepted EXCEPT ![hash[t]] = @ + 1]
            /\ putsOf' = [putsOf EXCEPT ![t] = @ + 1]
    /\ execution' = [execution EXCEPT ![t] =
                        [state |-> "built", exitCode |-> 0, hasExit |-> TRUE]]
    /\ pc' = [pc EXCEPT ![t] = "done"]
    /\ taskSummaries' = Appended(t)
    /\ UNCHANGED <<unitVars, optVars, dryVars, taskErr, restored, engVars, procVars, closed, wg, store,
                   applied, runVars>>

\* ------------------------------------------------------------- dry run
\* turboCache.Exists: whether the cache has an artifact for the hash; nothing
\* is fetched.
Exists(h) == IF h \in store THEN "exists" ELSE "missing"

\* dryRunExecFunc: probes the cache for the hash and records the task, or
\* returns an error (a root task that looks like it invokes turbo).
DryRunExec(t) ==
    /\ pc[t] = "dry"
    /\ \/ /\ pc' = [pc EXCEPT ![t] = "done"]
          /\ cacheState' = [cacheState EXCEPT ![t] = Exists(hash[t])]
          /\ UNCHANGED errs
       \/ /\ pc' = [pc EXCEPT ![t] = "failed"]
          /\ errs' = Append(errs, OtherErr)
          /\ UNCHANGED cacheState
    /\ UNCHANGED <<unitVars, optVars, taskErr, restored, execution, putsOf, taskSummaries,
                   errored, procVars, cacheVars, runVars>>

\* ------------------------------------------------------------ asyncCache
\* asyncCache.run: the worker applies the request it received to the real
\* cache and goes back to receiving.
WorkerPut(w) ==
    /\ requests[w] \in Hashes
    /\ store' = store \cup {requests[w]}
    /\ applied' = [applied EXCEPT ![requests[w]] = @ + 1]
    /\ requests' = [requests EXCEPT ![w] = 0]
    /\ UNCHANGED <<unitVars, optVars, dryVars, taskVars, engVars, procVars, closed, wg, accepted, runVars>>

\* asyncCache.run: the range over the closed channel ends, wg.Done().
WorkerDone(w) ==
    /\ requests[w] = 0
    /\ closed
    /\ requests' = [requests EXCEPT ![w] = -1]
    /\ wg' = wg - 1
    /\ UNCHANGED <<unitVars, optVars, dryVars, taskVars, engVars, procVars, closed, store, accepted,
                   applied, runVars>>

\* ------------------------------------------------------------- RealRun
\* The absolute value RealRun takes of a child's exit code.
ChildExitOf(code) == IF code < 0 THEN -code ELSE code

\* Mutant: an error that is no child exit always sets the exit code to 1.
NonExitErrorAlwaysOne(code) == 1

\* An error that is no child exit: the exit code becomes 1 if it was still 0.
NonExitError(code) == IF code = 0 THEN 1 ELSE code

\* RealRun's loop over the errors engine.Execute returned.
RECURSIVE FoldErrs(_, _)
FoldErrs(es, code) ==
    IF es = <<>> THEN code
    ELSE LET e == Head(es)
             childExit == ChildExitOf(e.code)
             next == IF e.kind = "exit"
                     THEN (IF childExit > code THEN childExit ELSE code)
                     ELSE NonExitError(code)
         IN FoldErrs(Tail(es), next)

\* RealRun's loop over the task summaries under continue-on-error.
RECURSIVE FoldSummaries(_, _)
FoldSummaries(ts, code) ==
    IF ts = {} THEN code
    ELSE LET t == CHOOSE x \in ts : TRUE
             childExit == ChildExitOf(execution[t].exitCode)
             next == IF execution[t].hasExit /\ childExit > code THEN childExit ELSE code
         IN FoldSummaries(ts \ {t}, next)

RealRunExitCode ==
    LET fromErrs == FoldErrs(errs, 0)
    IN IF continueOnError
       THEN FoldSummaries({t \in Tasks : taskSummaries[t] > 0}, fromErrs)
       ELSE fromErrs

\* executeTasks' loop over the errors: the exit code is compared as it is.
RECURSIVE executeTasksExitCode(_, _)
executeTasksExitCode(es, code) ==
    IF es = <<>> THEN code
    ELSE LET e == Head(es)
             next == IF e.kind = "exit"
                     THEN (IF e.code > code THEN e.code ELSE code)
                     ELSE (IF code = 0 THEN 1 ELSE code)
         IN executeTasksExitCode(Tail(es), next)

\* Mutant: Execute returns once an error has stopped the walk, without
\* waiting for the visitors that are still running.
ExecuteReturnedOnError == errored \/ \A t \in Tasks : pc[t] \in Terminal

\* engine.Execute has returned: every task was visited or passed over.
ExecuteReturned == \A t \in Tasks : pc[t] \in Terminal

\* RealRun computes the aggregate exit code from what Execute returned.
Aggregate ==
    /\ runPc = "executing"
    /\ ~dryRun
    /\ ExecuteReturned
    /\ exitCode' = RealRunExitCode
    /\ legacyExitCode' = executeTasksExitCode(errs, 0)
    /\ runPc' = "finishing"
    /\ UNCHANGED <<unitVars, optVars, dryVars, taskVars, engVars, procVars, cacheVars>>

\* executeDryRun has its task summaries (or the errors): DryRun returns.
DryRunReturns ==
    /\ runPc = "executing"
    /\ dryRun
    /\ ExecuteReturned
    /\ runPc' = "finishing"
    /\ UNCHANGED <<unitVars, optVars, dryVars, taskVars, engVars, procVars, cacheVars, exitCode,
                   legacyExitCode>>

\* The deferred turboCache.Shutdown starts: close(c.requests).
ShutdownClose ==
    /\ runPc = "finishing"
    /\ closed' = TRUE
    /\ runPc' = "shutdown"
    /\ UNCHANGED <<unitVars, optVars, dryVars, taskVars, engVars, procVars, requests, wg, store,
                   accepted, applied, exitCode, legacyExitCode>>

\* Mutant: Shutdown does not wait for the workers.
WaitReturnsAtOnce == TRUE

\* Has c.wg.Wait() in Shutdown come through?
WaitReturns == wg = 0

\* Shutdown returns, and the run with it.
ShutdownReturn ==
    /\ runPc = "shutdown"
    /\ WaitReturns
    /\ runPc' = "returned"
    /\ UNCHANGED <<unitVars, optVars, dryVars, taskVars, engVars, procVars, cacheVars, exitCode,
                   legacyExitCode>>

\* signalWatcher.AddOnClose(processes.Close): a signal closes the process
\* manager.
OnClose ==
    /\ runPc = "executing"
    /\ ~dryRun
    /\ ~closing
    /\ closing' = TRUE
    /\ UNCHANGED <<unitVars, optVars, dryVars, taskVars, engVars, children, spawned, cacheVars, runVars>>

Next ==
    \/ \E t \in Tasks : Visit(t)
    \/ \E t \in Tasks : Skip(t)
    \/ \E t \in Tasks : RestoreOutputs(t)
    \/ \E t \in Tasks : OutputWriterFails(t)
    \/ \E t \in Tasks : ProcessesExec(t)
    \/ \E t \in Tasks : ChildExits(t)
    \/ \E t \in Tasks : ProcessesClose(t)
    \/ \E t \in Tasks : ReturnError(t)
    \/ \E t \in Tasks : SaveOutputs(t)
    \/ \E t \in Tasks : DryRunExec(t)
    \/ \E w \in WorkerIds : WorkerPut(w)
    \/ \E w \in WorkerIds : WorkerDone(w)
    \/ Aggregate
    \/ DryRunReturns
    \/ ShutdownClose
    \/ ShutdownReturn
    \/ OnClose

Spec == Init /\ [][Next]_vars

\* ------------------------------------------------------------- fsCache
\* The state of a run, which the calls to a cache on its own leave alone.
runAllVars == <<optVars, taskVars, engVars, procVars, cacheVars, runVars, dryVars>>

\* What the calls to fsCache leave alone.
notFsVars == <<runAllVars, tarVars, remoteVars, graphVars, cmdVars, hashVars, rerunVars, envVars, execVars, summaryVars, watcherVars, spacesVars, logVars>>

\* A task (or the user) writes or removes a file of the working tree, while
\* no cache call is under way.
WriteFile(f, c) ==
    /\ putPc = "idle"
    /\ fetchPc = "idle"
    /\ workTree[f] # c
    /\ workTree' = [workTree EXCEPT ![f] = c]
    /\ UNCHANGED <<notFsVars, cachedFolder, metaFile, putPc, putReq, lastPut, artifacts, numPuts, fetchPc,
                   fetchRes>>

\* fsCache.Put is called: the files are queued for the digesters.  A fetch of
\* the same hash that is under way no longer follows a finished put.
PutStart(h, F, d) ==
    /\ putPc = "idle"
    /\ numPuts < MaxPuts
    /\ putPc' = "copying"
    /\ putReq' = [hash |-> h, files |-> F, duration |-> d, queue |-> F,
                  tree |-> NoFiles, failed |-> FALSE]
    /\ numPuts' = numPuts + 1
    /\ fetchRes' = IF fetchRes.hash = h
                   THEN [fetchRes EXCEPT !.afterPut = NoPutRecord]
                   ELSE fetchRes
    /\ UNCHANGED <<notFsVars, workTree, cachedFolder, metaFile, lastPut, artifacts, fetchPc>>

\* A digester takes a file off the queue: a stat error makes Put fail in the
\* end (the other files are still copied); otherwise the file is copied to
\* cacheDirectory/hash/file, which creates the folder.
PutCopy(f) ==
    /\ putPc = "copying"
    /\ f \in putReq.queue
    /\ IF workTree[f] = 0
       THEN /\ putReq' = [putReq EXCEPT !.queue = @ \ {f}, !.failed = TRUE]
            /\ UNCHANGED cachedFolder
       ELSE /\ putReq' = [putReq EXCEPT !.queue = @ \ {f}, !.tree[f] = workTree[f]]
            /\ cachedFolder' = [cachedFolder EXCEPT ![putReq.hash][f] = workTree[f]]
    /\ UNCHANGED <<notFsVars, workTree, metaFile, putPc, lastPut, artifacts, numPuts, fetchPc, fetchRes>>

\* g.Wait() returns an error: Put returns it, leaving what was copied.
PutFails ==
    /\ putPc = "copying"
    /\ putReq.queue = {}
    /\ putReq.failed
    /\ putPc' = "idle"
    /\ putReq' = NoPut
    /\ lastPut' = [lastPut EXCEPT ![putReq.hash] = NoPutRecord]
    /\ UNCHANGED <<notFsVars, workTree, cachedFolder, metaFile, artifacts, numPuts, fetchPc,
                   fetchRes>>

\* WriteCacheMetaFile, ioutil.WriteFile: the file is created or truncated
\* before its bytes are written.
PutTruncatesMeta ==
    /\ putPc = "copying"
    /\ putReq.queue = {}
    /\ ~putReq.failed
    /\ putPc' = "meta"
    /\ metaFile' = [metaFile EXCEPT ![putReq.hash] = [state |-> "partial", duration |-> 0]]
    /\ UNCHANGED <<notFsVars, workTree, cachedFolder, putReq, lastPut, artifacts, numPuts, fetchPc, fetchRes>>

\* The bytes are written, or the write fails; Put drops the error of
\* WriteCacheMetaFile and returns nil either way.
PutReturns ==
    /\ putPc = "meta"
    /\ \E written \in BOOLEAN :
        /\ metaFile' = IF written
                       THEN [metaFile EXCEPT ![putReq.hash] =
                                [state |-> "ok", duration |-> putReq.duration]]
                       ELSE metaFile
        /\ lastPut' = [lastPut EXCEPT ![putReq.hash] =
                          [made |-> TRUE, tree |-> putReq.tree,
                           duration |-> putReq.duration, metaWritten |-> written]]
    /\ artifacts' = [artifacts EXCEPT ![putReq.hash] =
                        @ \cup {[tree |-> putReq.tree, duration |-> putReq.duration]}]
    /\ putPc' = "idle"
    /\ putReq' = NoPut
    /\ UNCHANGED <<notFsVars, workTree, cachedFolder, numPuts, fetchPc, fetchRes>>

\* fs.RecursiveCopy(cachedFolder, target): every file of the folder is
\* written over the working tree.
RecursiveCopy(folder, target) ==
    [f \in Files |-> IF folder[f] # 0 THEN folder[f] ELSE target[f]]

\* fsCache.Fetch is called: a miss if the folder does not exist, otherwise
\* the folder is copied into position.
FetchStart(h) ==
    /\ fetchPc = "idle"
    /\ LET after == IF putPc = "idle" THEN lastPut[h] ELSE NoPutRecord IN
       IF FilesOf(cachedFolder[h]) = {}
       THEN /\ fetchPc' = "done"
            /\ fetchRes' = [NoFetch EXCEPT !.hash = h, !.afterPut = after]
            /\ UNCHANGED workTree
       ELSE /\ fetchPc' = "meta"
            /\ fetchRes' = [NoFetch EXCEPT !.hash = h, !.afterPut = after,
                                           !.copied = cachedFolder[h]]
            /\ workTree' = RecursiveCopy(cachedFolder[h], workTree)
    /\ UNCHANGED <<notFsVars, cachedFolder, metaFile, putPc, putReq, lastPut, artifacts, numPuts>>

\* What Fetch returns after ReadCacheMetaFile: an error when the file cannot
\* be read or parsed, a hit with the recorded duration otherwise.
FetchResult(meta) ==
    IF meta.state = "ok"
    THEN [hit |-> TRUE, err |-> FALSE, duration |-> meta.duration]
    ELSE [hit |-> FALSE, err |-> TRUE, duration |-> 0]

FetchReadsMeta ==
    /\ fetchPc = "meta"
    /\ LET meta == metaFile[fetchRes.hash]
           res == FetchResult(meta) IN
       fetchRes' = [fetchRes EXCEPT !.meta = meta.state, !.hit = res.hit,
                                    !.err = res.err, !.duration = res.duration]
    /\ fetchPc' = "done"
    /\ UNCHANGED <<notFsVars, workTree, cachedFolder, metaFile, putPc, putReq, lastPut, artifacts, numPuts>>

FetchReturns ==
    /\ fetchPc = "done"
    /\ fetchPc' = "idle"
    /\ fetchRes' = NoFetch
    /\ UNCHANGED <<notFsVars, workTree, cachedFolder, metaFile, putPc, putReq, lastPut, artifacts, numPuts>>

FsInit ==
    /\ LogIdle
    /\ SpacesIdle
    /\ WatcherIdle
    /\ SummaryIdle
    /\ ExecIdle
    /\ EnvIdle
    /\ RerunIdle
    /\ HashIdle
    /\ CmdIdle
    /\ RunIdle
    /\ TarIdle
    /\ RemoteIdle
    /\ GraphIdle
    /\ workTree \in Trees
    /\ FsEmpty

FsNext ==
    \/ \E f \in Files, c \in Contents \cup {0} : WriteFile(f, c)
    \/ \E h \in Keys, F \in SUBSET Files, d \in Durations :
            PutStart(h, F, d)
    \/ \E f \in Files : PutCopy(f)
    \/ PutFails
    \/ PutTruncatesMeta
    \/ PutReturns
    \/ \E h \in Keys : FetchStart(h)
    \/ FetchReadsMeta
    \/ FetchReturns

FsSpec == FsInit /\ [][FsNext]_vars

\* ------------------------------------------------------------ restoreTar
\* What restoreTar leaves alone.
notTarVars == <<runAllVars, fsVars, remoteVars, graphVars, cmdVars, hashVars, rerunVars, envVars, execVars, summaryVars, watcherVars, spacesVars, logVars>>

\* Mutant: no entry is taken to escape the root.
EscapesNever(entry) == FALSE

\* Does the normalized path of the entry escape the restore root?
Escapes(entry) == entry.escapes

\* Mutant: the files extracted so far are left in place.
RolledBackNothing(tree) == tree

\* The tree under the root after the partial restore was rolled back.
RolledBack(tree) == rootBefore

\* The next entry is inside the root: it is extracted.
RestoreEntry ==
    /\ tarPc = "restoring"
    /\ tarPos <= Len(tarEntries)
    /\ LET entry == tarEntries[tarPos] IN
        /\ ~Escapes(entry)
        /\ IF entry.escapes
           THEN /\ outsideFile' = entry.content
                /\ UNCHANGED restoreRoot
           ELSE /\ restoreRoot' = [restoreRoot EXCEPT ![entry.file] = entry.content]
                /\ UNCHANGED outsideFile
    /\ tarPos' = tarPos + 1
    /\ UNCHANGED <<notTarVars, tarEntries, tarPc, rootBefore, outsideBefore>>

\* The next entry escapes the root: restoreTar rolls back what it extracted
\* and returns an error.
RestoreRefuses ==
    /\ tarPc = "restoring"
    /\ tarPos <= Len(tarEntries)
    /\ Escapes(tarEntries[tarPos])
    /\ tarPc' = "failed"
    /\ restoreRoot' = RolledBack(restoreRoot)
    /\ UNCHANGED <<notTarVars, tarEntries, tarPos, outsideFile, rootBefore, outsideBefore>>

\* The end of the tar: restoreTar returns the restored files.
RestoreDone ==
    /\ tarPc = "restoring"
    /\ tarPos > Len(tarEntries)
    /\ tarPc' = "done"
    /\ UNCHANGED <<notTarVars, tarEntries, tarPos, restoreRoot, outsideFile, rootBefore,
                   outsideBefore>>

TarInit ==
    /\ LogIdle
    /\ SpacesIdle
    /\ WatcherIdle
    /\ SummaryIdle
    /\ ExecIdle
    /\ EnvIdle
    /\ RerunIdle
    /\ HashIdle
    /\ CmdIdle
    /\ RunIdle
    /\ FsIdle
    /\ RemoteIdle
    /\ GraphIdle
    /\ tarEntries \in Tars
    /\ tarPos = 1
    /\ tarPc = "restoring"
    /\ restoreRoot \in Trees
    /\ outsideFile \in Contents \cup {0}
    /\ rootBefore = restoreRoot
    /\ outsideBefore = outsideFile

TarNext ==
    \/ RestoreEntry
    \/ RestoreRefuses
    \/ RestoreDone

TarSpec == TarInit /\ [][TarNext]_vars

\* ------------------------------------------------- the remote cache
\* What the requests to the remote cache leave alone.
notRemoteVars == <<runAllVars, fsVars, tarVars, graphVars, cmdVars, hashVars, rerunVars, envVars, execVars, summaryVars, watcherVars, spacesVars, logVars>>

\* A fetch or a put goes to the caches in use: to the HTTP cache if it is
\* still one of them, otherwise it is served locally.
RequestStarts(r) ==
    /\ reqPc[r] = "idle"
    /\ reqPc' = [reqPc EXCEPT ![r] = IF useRemote THEN "remote" ELSE "done"]
    /\ UNCHANGED <<notRemoteVars, remoteDisabled, useRemote, onceDone, onceHolder, warnings>>

\* The HTTP cache answers: the artifact call succeeds, or the client returns
\* a CacheDisabledError (403, remote_caching_disabled), which the request
\* hands to the onCacheRemoved callback after dropping the HTTP cache.
RemoteAnswers(r) ==
    /\ reqPc[r] = "remote"
    /\ IF remoteDisabled
       THEN /\ reqPc' = [reqPc EXCEPT ![r] = "callback"]
            /\ useRemote' = FALSE
       ELSE /\ reqPc' = [reqPc EXCEPT ![r] = "done"]
            /\ UNCHANGED useRemote
    /\ UNCHANGED <<notRemoteVars, remoteDisabled, onceDone, onceHolder, warnings>>

\* The team's remote caching is switched off while the run goes on.
RemoteGetsDisabled ==
    /\ ~remoteDisabled
    /\ remoteDisabled' = TRUE
    /\ UNCHANGED <<notRemoteVars, useRemote, reqPc, onceDone, onceHolder, warnings>>

\* Mutant: the Once is tested without holding its lock.
OnceMayRunUnlocked == ~onceDone

\* sync.Once.Do runs its function: it has not run, and no one is running it.
OnceMayRun == ~onceDone /\ onceHolder = 0

\* once.Do in the callback: this request runs the function, which logs the
\* warning.
OnceRuns(r) ==
    /\ reqPc[r] = "callback"
    /\ OnceMayRun
    /\ onceHolder' = r
    /\ warnings' = warnings + 1
    /\ reqPc' = [reqPc EXCEPT ![r] = "logging"]
    /\ UNCHANGED <<notRemoteVars, remoteDisabled, useRemote, onceDone>>

\* The function returns: the Once is done.
OnceReturns(r) ==
    /\ reqPc[r] = "logging"
    /\ onceDone' = TRUE
    /\ onceHolder' = IF onceHolder = r THEN 0 ELSE onceHolder
    /\ reqPc' = [reqPc EXCEPT ![r] = "done"]
    /\ UNCHANGED <<notRemoteVars, remoteDisabled, useRemote, warnings>>

\* once.Do in the callback when the Once is done: it returns at once.
OnceSkips(r) ==
    /\ reqPc[r] = "callback"
    /\ onceDone
    /\ reqPc' = [reqPc EXCEPT ![r] = "done"]
    /\ UNCHANGED <<notRemoteVars, remoteDisabled, useRemote, onceDone, onceHolder, warnings>>

RemoteInit ==
    /\ LogIdle
    /\ SpacesIdle
    /\ WatcherIdle
    /\ SummaryIdle
    /\ ExecIdle
    /\ EnvIdle
    /\ RerunIdle
    /\ HashIdle
    /\ CmdIdle
    /\ RunIdle
    /\ FsIdle
    /\ TarIdle
    /\ GraphIdle
    /\ remoteDisabled \in BOOLEAN
    /\ RemoteStart

RemoteNext ==
    \/ \E r \in Requests : RequestStarts(r)
    \/ \E r \in Requests : RemoteAnswers(r)
    \/ RemoteGetsDisabled
    \/ \E r \in Requests : OnceRuns(r)
    \/ \E r \in Requests : OnceReturns(r)
    \/ \E r \in Requests : OnceSkips(r)

RemoteSpec == RemoteInit /\ [][RemoteNext]_vars

\* ------------------------------------------------- the task graph builder
\* What building the task graph leaves alone.
notGraphVars == <<runAllVars, fsVars, tarVars, remoteVars, cmdVars, hashVars, rerunVars, envVars, execVars, summaryVars, watcherVars, spacesVars, logVars>>

\* What runOperation is given: the workspace graph, the pipeline and the runSpec.
graphInputs == <<topoGraph, topoDepsOf, taskDepsOf, packageTaskDeps, persistent,
                 filteredPkgs, targets, tasksOnly, parallel, workspaceGraph>>

\* Prepare starts from every requested task of every filtered package.
RequestedTasks == {GetTaskId(pkg, target) : pkg \in filteredPkgs, target \in targets}

\* p.TopologicGraph.DownEdges(pkg)
DownEdges(pkg) == topoGraph[pkg]

\* Mutant: the packages outside the filter are not entered.
DepsOfTaskInScope(taskId) ==
    {GetTaskId(taskId[1], from) : from \in taskDepsOf[taskId[2]]}
        \cup {GetTaskId(depPkg, from) : depPkg \in DownEdges(taskId[1]) \cap filteredPkgs,
                                        from \in topoDepsOf[taskId[2]]}
        \cup {e[2] : e \in {x \in packageTaskDeps : x[1] = taskId /\ x[2][1] \in filteredPkgs}}

\* The tasks one task depends on: its task dependencies in its own package,
\* its topological dependencies in every package its package depends on, and
\* the package tasks registered for it with AddDep.
DepsOfTask(taskId) ==
    {GetTaskId(taskId[1], from) : from \in taskDepsOf[taskId[2]]}
        \cup {GetTaskId(depPkg, from) : depPkg \in DownEdges(taskId[1]),
                                        from \in topoDepsOf[taskId[2]]}
        \cup {e[2] : e \in {x \in packageTaskDeps : x[1] = taskId}}

\* Prepare's traversal: the tasks in the queue are visited, and the tasks
\* they depend on are queued, until no unvisited task is left.
RECURSIVE Traverse(_, _)
Traverse(traversalQueue, seen) ==
    IF traversalQueue \subseteq seen
    THEN seen
    ELSE Traverse(UNION {DepsOfTask(taskId) : taskId \in traversalQueue \ seen},
                  seen \cup traversalQueue)

\* Mutant: the only option is dropped on the way to Prepare.
TasksOnlyIgnored == FALSE

\* SchedulerExecutionOptions.TasksOnly, as buildTaskGraph sets it.
TasksOnly == tasksOnly

\* The vertices Prepare adds: with TasksOnly the requested tasks, otherwise
\* all that the traversal visits.
GeneratedNodes == IF TasksOnly THEN RequestedTasks ELSE Traverse(RequestedTasks, {})

\* The dependency edges Prepare connects: none with TasksOnly.
GeneratedDeps(nodes) ==
    IF TasksOnly
    THEN {}
    ELSE UNION {{<<taskId, from>> : from \in DepsOfTask(taskId)} : taskId \in nodes}

\* A task without dependencies is connected to ___ROOT___.
RootEdges(nodes, edges) ==
    {<<taskId, ROOT_NODE_NAME>> : taskId \in {n \in nodes : \A e \in edges : e[1] # n}}

\* The edges from a task to itself.
SelfEdges(edges) == {e \in edges : e[1] = e[2]}

\* The vertices left after taking away, again and again, those with no edge
\* to a vertex that is left: the vertices on a cycle or above one.
RECURSIVE Eliminate(_, _)
Eliminate(nodes, edges) ==
    LET leaves == {n \in nodes : \A e \in edges : e[1] = n => e[2] \notin nodes}
    IN  IF leaves = {} THEN nodes ELSE Eliminate(nodes \ leaves, edges)

\* Mutant: only a cycle through several tasks is an error.
ValidateGraphOfCycles(nodes, edges) ==
    IF Eliminate(nodes, edges \ SelfEdges(edges)) # {} THEN "cycle" ELSE "valid"

\* util.ValidateGraph: a cycle is an error, and so is a task that depends on
\* itself.
ValidateGraph(nodes, edges) ==
    IF Eliminate(nodes, edges \ SelfEdges(edges)) # {}
    THEN "cycle"
    ELSE IF SelfEdges(edges) # {} THEN "self" ELSE "valid"

\* runOperation calls buildTaskGraph.  Every task of the pipeline is added as
\* a core.Task of its Name, TopoDeps and Deps: the Persistent field of its
\* definition is not handed to the engine.  Prepare generates the graph and
\* ValidateGraph refuses a cycle; with an error runOperation returns it, wrapped,
\* and no engine exists.
buildTaskGraph ==
    /\ graphPc = "building"
    /\ LET nodes == GeneratedNodes
           edges == GeneratedDeps(nodes)
           verdict == ValidateGraph(nodes, edges)
       IN  IF verdict # "valid"
           THEN /\ prepareErr' = [NoPrepareErr EXCEPT !.kind = verdict]
                /\ graphPc' = "rejected"
                /\ UNCHANGED <<taskNodes, taskEdges>>
           ELSE /\ taskNodes' = nodes
                /\ taskEdges' = edges \cup RootEdges(nodes, edges)
                /\ graphPc' = "built"
                /\ UNCHANGED prepareErr
    /\ UNCHANGED <<notGraphVars, graphInputs, visited>>

\* The graph buildTaskGraph validates, and its verdict, for the workspace
\* graph, the pipeline and the options as they are.
PreparedNodes == GeneratedNodes
PreparedDeps == GeneratedDeps(PreparedNodes)
PreparedEdges == PreparedDeps \cup RootEdges(PreparedNodes, PreparedDeps)
PreparedVerdict == ValidateGraph(PreparedNodes, PreparedDeps)

\* Mutant: the edges of the workspace graph stay for the second build.
KeepsEdges(graph) == graph

\* runOperation with parallel: every edge of the workspace graph whose target
\* is not the root node is removed.  The packages of the model are the real
\* ones, so no edge is left.
RemoveEdges(graph) == [p \in Pkgs |-> {}]

\* runOperation with parallel: the edges are removed from g.TopologicalGraph
\* and the task graph is built again, from the same pipeline.
rebuildParallel ==
    /\ graphPc = "built"
    /\ parallel
    /\ topoGraph' = RemoveEdges(topoGraph)
    /\ UNCHANGED <<topoDepsOf, taskDepsOf, packageTaskDeps, persistent, filteredPkgs,
                   targets, tasksOnly, parallel, workspaceGraph>>
    /\ IF PreparedVerdict' # "valid"
       THEN /\ prepareErr' = [NoPrepareErr EXCEPT !.kind = PreparedVerdict']
            /\ graphPc' = "rejected"
            /\ taskNodes' = {}
            /\ taskEdges' = {}
       ELSE /\ taskNodes' = PreparedNodes'
            /\ taskEdges' = PreparedEdges'
            /\ graphPc' = "rebuilt"
            /\ UNCHANGED prepareErr
    /\ UNCHANGED <<notGraphVars, visited>>

\* r.executeTasks: engine.Execute visits every task of the graph.
executeTasks ==
    /\ \/ graphPc = "built" /\ ~parallel
       \/ graphPc = "rebuilt"
    /\ visited' = taskNodes
    /\ graphPc' = "executed"
    /\ UNCHANGED <<notGraphVars, graphInputs, taskNodes, taskEdges, prepareErr>>

GraphInit ==
    /\ LogIdle
    /\ SpacesIdle
    /\ WatcherIdle
    /\ SummaryIdle
    /\ ExecIdle
    /\ EnvIdle
    /\ RerunIdle
    /\ HashIdle
    /\ CmdIdle
    /\ RunIdle
    /\ FsIdle
    /\ TarIdle
    /\ RemoteIdle
    /\ topoGraph \in WorkspaceGraphs
    /\ topoDepsOf \in [TaskNames -> SUBSET TaskNames]
    /\ taskDepsOf \in [TaskNames -> SUBSET TaskNames]
    /\ packageTaskDeps \in {S \in SUBSET PackageTaskEdges : Cardinality(S) <= MaxPackageTaskDeps}
    /\ persistent \in {S \in SUBSET TaskIds : Cardinality(S) <= MaxPersistent}
    /\ filteredPkgs \in (SUBSET Pkgs) \ {{}}
    /\ targets \in TargetChoices
    /\ tasksOnly \in BOOLEAN
    /\ parallel = FALSE
    /\ workspaceGraph = topoGraph
    /\ GraphStart

GraphNext ==
    \/ buildTaskGraph
    \/ executeTasks

GraphSpec == GraphInit /\ [][GraphNext]_vars

\* A run with --parallel, over the same workspace graphs and pipelines.
ParallelInit ==
    /\ LogIdle
    /\ SpacesIdle
    /\ WatcherIdle
    /\ SummaryIdle
    /\ ExecIdle
    /\ EnvIdle
    /\ RerunIdle
    /\ HashIdle
    /\ CmdIdle
    /\ RunIdle
    /\ FsIdle
    /\ TarIdle
    /\ RemoteIdle
    /\ topoGraph \in WorkspaceGraphs
    /\ topoDepsOf \in [TaskNames -> SUBSET TaskNames]
    /\ taskDepsOf \in [TaskNames -> SUBSET TaskNames]
    /\ packageTaskDeps \in {S \in SUBSET PackageTaskEdges : Cardinality(S) <= MaxPackageTaskDeps}
    /\ persistent = {}
    /\ filteredPkgs \in (SUBSET Pkgs) \ {{}}
    /\ targets \in TargetChoices
    /\ tasksOnly \in BOOLEAN
    /\ parallel = TRUE
    /\ workspaceGraph = topoGraph
    /\ GraphStart

ParallelNext ==
    \/ buildTaskGraph
    \/ rebuildParallel
    \/ executeTasks

ParallelSpec == ParallelInit /\ [][ParallelNext]_vars

\* --------------------------------------------------------- the run command
\* What the run command leaves alone up to runOperation.
notCmdVars == <<runAllVars, fsVars, tarVars, remoteVars, graphVars, hashVars, rerunVars, envVars, execVars, summaryVars, watcherVars, spacesVars, logVars>>

\* util.IsPackageTask: the key has the form pkg#task.
IsPackageTask(key) == key[1] # 0

\* Mutant: any key of the pipeline will do.
HasTaskOfAnyKey(task) == pipelineKeys # {}

\* Pipeline.HasTask: the task is a key of the pipeline, or the task part of a
\* package-task key.
HasTask(task) ==
    \E key \in pipelineKeys :
        \/ key = BareKey(task)
        \/ IsPackageTask(key) /\ key[2] = task

\* run: validateTasks returns an error for the first target the pipeline
\* has not, and run returns it; otherwise run goes on.
validateTasks ==
    /\ cmdPc = "start"
    /\ cmdPc' = IF \A task \in cliTargets : HasTask(task) THEN "validated" ELSE "failed"
    /\ UNCHANGED <<notCmdVars, pipelineKeys, cliTargets, cmdExit, tasksHashed, tasksRun>>

\* runOperation: the task graph is built and the files of its tasks are hashed.
CalculateFileHashes ==
    /\ cmdPc = "validated"
    /\ tasksHashed' = TRUE
    /\ cmdPc' = "hashed"
    /\ UNCHANGED <<notCmdVars, pipelineKeys, cliTargets, cmdExit, tasksRun>>

\* runOperation: the tasks are executed.
runExecutes ==
    /\ cmdPc = "hashed"
    /\ tasksRun' = TRUE
    /\ cmdPc' = "done"
    /\ UNCHANGED <<notCmdVars, pipelineKeys, cliTargets, cmdExit, tasksHashed>>

\* RunCommand.Run: an error that is not a child's exit is logged and makes
\* the exit code 1.
RunReturns ==
    /\ cmdPc \in {"failed", "done"}
    /\ cmdExit' = IF cmdPc = "failed" THEN 1 ELSE 0
    /\ cmdPc' = "exited"
    /\ UNCHANGED <<notCmdVars, pipelineKeys, cliTargets, tasksHashed, tasksRun>>

CmdInit ==
    /\ LogIdle
    /\ SpacesIdle
    /\ WatcherIdle
    /\ SummaryIdle
    /\ ExecIdle
    /\ EnvIdle
    /\ RerunIdle
    /\ HashIdle
    /\ RunIdle
    /\ FsIdle
    /\ TarIdle
    /\ RemoteIdle
    /\ GraphIdle
    /\ pipelineKeys \in SUBSET PipelineKeys
    /\ cliTargets \in (SUBSET TaskNames) \ {{}}
    /\ CmdStart

CmdNext ==
    \/ validateTasks
    \/ CalculateFileHashes
    \/ runExecutes
    \/ RunReturns

CmdSpec == CmdInit /\ [][CmdNext]_vars

\* ---------------------------------------------------------- the global hash
\* What computing the global hash leaves alone.
notHashVars == <<runAllVars, fsVars, tarVars, remoteVars, graphVars, cmdVars, rerunVars, envVars, execVars, summaryVars, watcherVars, spacesVars, logVars>>

\* fs.HashObject: the hash of a value, which is the hash of its fields in
\* order; a nil list and an empty list are told apart.  Two values have the
\* same hash when their fields are the same, so the sequence of the fields
\* stands for the hash.
HashObject(hashable) ==
    <<hashable.globalFileHashMap, hashable.envVarPassthroughs.isNil,
      hashable.envVarPassthroughs.names, hashable.envMode>>

\* calculateGlobalHash: the hash of the globalHashable made of the inputs.
calculateGlobalHash(full) ==
    HashObject([globalFileHashMap |-> full.globalFileHashMap,
                envVarPassthroughs |-> full.envVarPassthroughs,
                envMode |-> full.envMode])

\* Mutant: every mode hashes the inputs as they are.
calculateGlobalHashOfAnyMode(full) == calculateGlobalHash(full)

\* calculateGlobalHashFromHashableInputs: infer with a list becomes strict,
\* loose drops the list, strict turns nil into the empty list.
calculateGlobalHashFromHashableInputs(full) ==
    CASE full.envMode = "infer" ->
            IF ~full.envVarPassthroughs.isNil
            THEN calculateGlobalHash([full EXCEPT !.envMode = "strict"])
            ELSE calculateGlobalHash(full)
      [] full.envMode = "loose" ->
            calculateGlobalHash([full EXCEPT !.envVarPassthroughs = NilPassthroughs])
      [] full.envMode = "strict" ->
            IF full.envVarPassthroughs.isNil
            THEN calculateGlobalHash([full EXCEPT !.envVarPassthroughs = ListOf({})])
            ELSE calculateGlobalHash(full)

\* A run computes its global hash.
getGlobalHash(r) ==
    /\ globalHash[r] = NoHash
    /\ globalHash' = [globalHash EXCEPT ![r] = calculateGlobalHashFromHashableInputs(hashInputs[r])]
    /\ UNCHANGED <<notHashVars, hashInputs, environ>>

HashInit ==
    /\ LogIdle
    /\ SpacesIdle
    /\ WatcherIdle
    /\ SummaryIdle
    /\ ExecIdle
    /\ EnvIdle
    /\ RerunIdle
    /\ RunIdle
    /\ FsIdle
    /\ TarIdle
    /\ RemoteIdle
    /\ GraphIdle
    /\ CmdIdle
    /\ hashInputs \in [Runs -> GlobalHashableInputs]
    /\ environ \in [Runs -> PassValues]
    /\ globalHash = [r \in Runs |-> NoHash]

HashNext == \E r \in Runs : getGlobalHash(r)

HashSpec == HashInit /\ [][HashNext]_vars

\* ------------------------------------------------------ two runs of a task
\* What the two runs leave alone.
notRerunVars == <<runAllVars, fsVars, tarVars, remoteVars, graphVars, cmdVars, envVars, execVars, summaryVars, watcherVars, spacesVars, logVars>>

\* Mutant: a synthesized task is cached like one whose entry leaves cache out.
ShouldCacheByDefault(config) == config # "cache-false"

\* TaskDefinition.ShouldCache: UnmarshalJSON sets it to true unless the entry
\* says cache: false; a task LoadTurboConfig synthesizes from a script is the
\* zero TaskDefinition, whose ShouldCache is false.
ShouldCache(config) == config \in {"cache-unset", "cache-true"}

\* taskhash.CalculateTaskHash: the task's own inputs being fixed, the task
\* hash is the hash of the global hash.
CalculateTaskHash(global) == <<global>>

\* Mutant: the artifact is not stored.
PutDropped(taskHash, stored) == stored

\* taskCache.SaveOutputs puts the artifact: the cache has one for the hash.
PutArtifact(taskHash, stored) == stored \cup {taskHash}

\* The inputs of the runs: the env mode is any, the list is nil or one name.
RerunInputs ==
    {i \in GlobalHashableInputs :
        i.envVarPassthroughs \in {NilPassthroughs, ListOf({1})}}

\* The run computes the global hash.
runHashes ==
    /\ rerunPc = "start"
    /\ globalHash' = [globalHash EXCEPT
                        ![runNo] = calculateGlobalHashFromHashableInputs(hashInputs[runNo])]
    /\ rerunPc' = "hashed"
    /\ UNCHANGED <<notRerunVars, hashInputs, environ, turboConfig, runNo, cacheArtifacts,
                   cacheStatus, executedIn, succeededIn>>

\* exec: a task that is not cached bypasses the cache; otherwise its outputs
\* are restored when the cache has its hash, and exec returns.  Without a
\* hit the script is executed, and when it exits with 0 the outputs of a
\* cached task are saved.
rerunExec(ok) ==
    /\ rerunPc = "hashed"
    /\ LET taskHash == CalculateTaskHash(globalHash[runNo])
           hit == ShouldCache(turboConfig) /\ taskHash \in cacheArtifacts
       IN  /\ cacheStatus' = [cacheStatus EXCEPT
                 ![runNo] = IF ~ShouldCache(turboConfig) THEN "bypass"
                            ELSE IF hit THEN "hit" ELSE "miss"]
           /\ IF hit
              THEN UNCHANGED <<executedIn, succeededIn, cacheArtifacts>>
              ELSE /\ executedIn' = executedIn \cup {runNo}
                   /\ succeededIn' = IF ok THEN succeededIn \cup {runNo} ELSE succeededIn
                   /\ cacheArtifacts' = IF ok /\ ShouldCache(turboConfig)
                                        THEN PutArtifact(taskHash, cacheArtifacts)
                                        ELSE cacheArtifacts
    /\ rerunPc' = "finished"
    /\ UNCHANGED <<notRerunVars, hashVars, turboConfig, runNo>>

\* The command is run again.
runAgain ==
    /\ rerunPc = "finished"
    /\ runNo < NumRuns
    /\ runNo' = runNo + 1
    /\ rerunPc' = "start"
    /\ UNCHANGED <<notRerunVars, hashVars, turboConfig, cacheArtifacts, cacheStatus,
                   executedIn, succeededIn>>

RerunInit ==
    /\ LogIdle
    /\ SpacesIdle
    /\ WatcherIdle
    /\ SummaryIdle
    /\ ExecIdle
    /\ EnvIdle
    /\ RunIdle
    /\ FsIdle
    /\ TarIdle
    /\ RemoteIdle
    /\ GraphIdle
    /\ CmdIdle
    /\ hashInputs \in [Runs -> RerunInputs]
    /\ environ \in [Runs -> PassValues]
    /\ globalHash = [r \in Runs |-> NoHash]
    /\ turboConfig \in TurboConfigs
    /\ RerunStart

RerunNext ==
    \/ runHashes
    \/ \E ok \in BOOLEAN : rerunExec(ok)
    \/ runAgain

RerunSpec == RerunInit /\ [][RerunNext]_vars

\* ------------------------------------------------- the child's environment
\* What setting up the command leaves alone.
notEnvVars == <<runAllVars, fsVars, tarVars, remoteVars, graphVars, cmdVars, hashVars,
                rerunVars, execVars, summaryVars, watcherVars, spacesVars, logVars>>

\* EnvironmentVariableMap.FromWildcards: the variables of the map that the
\* names match.
FromWildcards(map, names) == [n \in EnvNames |-> IF n \in names THEN map[n] ELSE Unset]

\* EnvironmentVariableMap.Union: the variables of the other map are added,
\* and replace those of the same name.
Union(map, other) == [n \in EnvNames |-> IF other[n] # Unset THEN other[n] ELSE map[n]]

\* The default pass-throughs of strict mode.
DefaultPassThroughs == {"PATH", "SHELL", "SYSTEMROOT"}

\* Mutant: strict mode hands over the whole environment as well.
StrictEnvOfAll(start) == start

\* exec in strict mode: the default pass-throughs, the global hashed and
\* pass-through variables, the task's hashed variables and its pass-throughs.
StrictEnv(start) ==
    LET defaultPassThroughEnvVarMap == FromWildcards(start, DefaultPassThroughs)
        envVarPassThroughMap == FromWildcards(start, PassThroughEnv)
        ecEnv == FromWildcards(start, globalEnv)
        ecPassThroughEnv == FromWildcards(start, globalPassThroughEnv)
        taskEnvVars == FromWildcards(start, taskEnv)
    IN  Union(Union(Union(Union(Union(EmptyEnv, defaultPassThroughEnvVarMap), ecEnv),
                          ecPassThroughEnv), taskEnvVars), envVarPassThroughMap)

\* exec sets cmd.Env: in strict mode the variables above, otherwise the whole
\* environment; TURBO_HASH is added last and replaces any value.
execSetsEnv ==
    /\ envPc = "setup"
    /\ LET passThroughEnv == IF taskEnvMode = "strict"
                             THEN StrictEnv(EnvAtExecutionStart)
                             ELSE Union(EmptyEnv, EnvAtExecutionStart)
       IN  cmdEnv' = [passThroughEnv EXCEPT !["TURBO_HASH"] = HashValue]
    /\ envPc' = "started"
    /\ UNCHANGED <<notEnvVars, EnvAtExecutionStart, taskEnvMode, globalEnv, taskEnv,
                   globalPassThroughEnv, PassThroughEnv>>

EnvInit ==
    /\ LogIdle
    /\ SpacesIdle
    /\ WatcherIdle
    /\ SummaryIdle
    /\ ExecIdle
    /\ RunIdle
    /\ FsIdle
    /\ TarIdle
    /\ RemoteIdle
    /\ GraphIdle
    /\ CmdIdle
    /\ HashIdle
    /\ RerunIdle
    /\ EnvAtExecutionStart \in ParentEnvs
    /\ taskEnvMode \in {"loose", "strict"}
    /\ globalEnv \in SUBSET DeclarableNames
    /\ taskEnv \in SUBSET DeclarableNames
    /\ globalPassThroughEnv \in SUBSET DeclarableNames
    /\ PassThroughEnv \in SUBSET DeclarableNames
    /\ EnvStart

EnvNext == execSetsEnv

EnvSpec == EnvInit /\ [][EnvNext]_vars

\* ------------------------------------------------------ execContext.exec
\* What exec of run.go leaves alone.
notExecVars == <<runAllVars, fsVars, tarVars, remoteVars, graphVars, cmdVars, hashVars,
                 rerunVars, envVars, summaryVars, watcherVars, spacesVars, logVars>>

execInputs == <<hashFails, scriptExists>>

\* exec hashes the task.  An error is written to the ui as a hashing error
\* and exec carries on with whatever hash was returned with it.
execHashes ==
    /\ execPc = "start"
    /\ \/ /\ ~hashFails
          /\ execHash' \in ExecHashes
          /\ UNCHANGED hashingErrors
       \/ /\ hashFails
          /\ execHash' \in {EmptyHash} \cup ExecHashes
          /\ hashingErrors' = hashingErrors + 1
    /\ execPc' = "hashed"
    /\ UNCHANGED <<notExecVars, execInputs, artifactStore, lookedUp, savedOutputs, commandRun,
                   tracerResult>>

\* exec bails when the package has no such script.
execBails ==
    /\ execPc = "hashed"
    /\ ~scriptExists
    /\ tracerResult' = "nonexistent"
    /\ execPc' = "returned"
    /\ UNCHANGED <<notExecVars, execInputs, artifactStore, execHash, hashingErrors, lookedUp,
                   savedOutputs, commandRun>>

\* taskCache.RestoreOutputs: an error is reported and the task goes on to
\* run; a hit ends exec; a miss goes on to run.
execRestores ==
    /\ execPc = "hashed"
    /\ scriptExists
    /\ lookedUp' = lookedUp \cup {execHash}
    /\ \/ /\ execHash \in artifactStore
          /\ tracerResult' = "cached"
          /\ execPc' = "returned"
       \/ /\ execPc' = "command"
          /\ UNCHANGED tracerResult
    /\ UNCHANGED <<notExecVars, execInputs, artifactStore, execHash, hashingErrors,
                   savedOutputs, commandRun>>

\* processes.Exec(cmd): the command fails, or it succeeds and its outputs
\* are saved under the hash.
execRuns(ok) ==
    /\ execPc = "command"
    /\ commandRun' = TRUE
    /\ IF ok
       THEN /\ \/ /\ savedOutputs' = savedOutputs \cup {execHash}
                  /\ artifactStore' = artifactStore \cup {execHash}
               \/ UNCHANGED <<savedOutputs, artifactStore>>
            /\ tracerResult' = "completed"
       ELSE /\ tracerResult' = "failed"
            /\ UNCHANGED <<savedOutputs, artifactStore>>
    /\ execPc' = "returned"
    /\ UNCHANGED <<notExecVars, execInputs, execHash, hashingErrors, lookedUp>>

ExecInit ==
    /\ LogIdle
    /\ SpacesIdle
    /\ WatcherIdle
    /\ SummaryIdle
    /\ RunIdle
    /\ FsIdle
    /\ TarIdle
    /\ RemoteIdle
    /\ GraphIdle
    /\ CmdIdle
    /\ HashIdle
    /\ RerunIdle
    /\ EnvIdle
    /\ hashFails \in BOOLEAN
    /\ scriptExists \in BOOLEAN
    /\ artifactStore \in SUBSET ({EmptyHash} \cup ExecHashes)
    /\ ExecStart

ExecNext ==
    \/ execHashes
    \/ execBails
    \/ execRestores
    \/ \E ok \in BOOLEAN : execRuns(ok)

ExecSpec == ExecInit /\ [][ExecNext]_vars

\* ------------------------------------------------------- RealRun.execFunc
\* What execFunc leaves alone.
notSummaryVars == <<runAllVars, fsVars, tarVars, remoteVars, graphVars, cmdVars, hashVars,
                    rerunVars, envVars, execVars, watcherVars, spacesVars, logVars>>

\* ec.exec returns for task t: with a task execution summary when the task
\* was run, with nil when it never executed.
execReturns(t) ==
    /\ summaryPc[t] = "exec"
    /\ summaryPc' = [summaryPc EXCEPT ![t] = IF outcome[t] \in WasRun THEN "lock" ELSE "done"]
    /\ UNCHANGED <<notSummaryVars, outcome, taskSummaryMutex, summaries, appendOld,
                   closedTasks>>

\* Mutant: the mutex lets every worker in.
LockFreeAlways(holder) == TRUE

\* sync.Mutex.Lock returns when no worker holds the mutex.
LockFree(holder) == holder = Unlocked

\* taskSummaryMutex.Lock()
summaryLock(t) ==
    /\ summaryPc[t] = "lock"
    /\ LockFree(taskSummaryMutex)
    /\ taskSummaryMutex' = t
    /\ summaryPc' = [summaryPc EXCEPT ![t] = "append"]
    /\ UNCHANGED <<notSummaryVars, outcome, summaries, appendOld, closedTasks>>

\* append(taskSummaries, taskSummary): the slice is read ...
appendReads(t) ==
    /\ summaryPc[t] = "append"
    /\ appendOld' = [appendOld EXCEPT ![t] = summaries]
    /\ summaryPc' = [summaryPc EXCEPT ![t] = "assign"]
    /\ UNCHANGED <<notSummaryVars, outcome, taskSummaryMutex, summaries, closedTasks>>

\* ... and the slice with the task's summary at its end is assigned.
appendAssigns(t) ==
    /\ summaryPc[t] = "assign"
    /\ summaries' = Append(appendOld[t], t)
    /\ summaryPc' = [summaryPc EXCEPT ![t] = "unlock"]
    /\ UNCHANGED <<notSummaryVars, outcome, taskSummaryMutex, appendOld, closedTasks>>

\* taskSummaryMutex.Unlock()
summaryUnlock(t) ==
    /\ summaryPc[t] = "unlock"
    /\ taskSummaryMutex' = Unlocked
    /\ summaryPc' = [summaryPc EXCEPT ![t] = "close"]
    /\ UNCHANGED <<notSummaryVars, outcome, summaries, appendOld, closedTasks>>

\* runSummary.CloseTask(taskSummary, logBytes), and execFunc returns.
CloseTask(t) ==
    /\ summaryPc[t] = "close"
    /\ closedTasks' = [closedTasks EXCEPT ![t] = @ + 1]
    /\ summaryPc' = [summaryPc EXCEPT ![t] = "done"]
    /\ UNCHANGED <<notSummaryVars, outcome, taskSummaryMutex, summaries, appendOld>>

SummaryInit ==
    /\ LogIdle
    /\ SpacesIdle
    /\ WatcherIdle
    /\ RunIdle
    /\ FsIdle
    /\ TarIdle
    /\ RemoteIdle
    /\ GraphIdle
    /\ CmdIdle
    /\ HashIdle
    /\ RerunIdle
    /\ EnvIdle
    /\ ExecIdle
    /\ outcome \in [SummaryTasks -> ExecOutcomes]
    /\ SummaryStart

SummaryNext ==
    \/ \E t \in SummaryTasks : execReturns(t)
    \/ \E t \in SummaryTasks : summaryLock(t)
    \/ \E t \in SummaryTasks : appendReads(t)
    \/ \E t \in SummaryTasks : appendAssigns(t)
    \/ \E t \in SummaryTasks : summaryUnlock(t)
    \/ \E t \in SummaryTasks : CloseTask(t)

SummarySpec == SummaryInit /\ [][SummaryNext]_vars

\* ------------------------------------------------------------ GlobWatcher
\* What the watcher leaves alone.
notWatcherVars == <<runAllVars, fsVars, tarVars, remoteVars, graphVars, cmdVars, hashVars,
                    rerunVars, envVars, execVars, summaryVars, spacesVars, logVars>>

\* Mutant: the watcher never finds itself closed.
isClosedNever(isClosed) == FALSE

\* GlobWatcher.isClosed
isClosed(isClosedNow) == isClosedNow

\* WatchGlobs is called: ErrClosed when the watcher is closed, otherwise the
\* caller waits for a cookie.
WatchGlobsCalled(c, key, globs) ==
    /\ call[c].pc \in {"idle", "returned"}
    /\ call' = [call EXCEPT ![c] =
                   IF isClosed(watcherClosed)
                   THEN [pc |-> "returned", op |-> "watch", hash |-> key, globs |-> globs,
                         err |-> "ErrClosed", changed |-> {}]
                   ELSE [pc |-> "cookie", op |-> "watch", hash |-> key, globs |-> globs,
                         err |-> "nil", changed |-> {}]]
    /\ UNCHANGED <<notWatcherVars, hashGlobs, globStatus, watcherClosed, registered,
                   changedSince>>

\* WatchGlobs after the wait: the error of the wait is returned, or, under
\* the lock, the hash gets the set of the globs and is added to each of them.
WatchGlobsRegisters(c) ==
    /\ call[c].pc = "cookie"
    /\ call[c].op = "watch"
    /\ \/ /\ call' = [call EXCEPT ![c].pc = "returned", ![c].err = "cookie"]
          /\ UNCHANGED <<hashGlobs, globStatus, registered, changedSince>>
       \/ LET key == call[c].hash
              globs == call[c].globs
          IN  /\ hashGlobs' = [hashGlobs EXCEPT ![key] = [ok |-> TRUE, set |-> globs]]
              /\ globStatus' = [glob \in Globs |->
                                   IF glob \in globs
                                   THEN [ok |-> TRUE, set |-> globStatus[glob].set \cup {key}]
                                   ELSE globStatus[glob]]
              /\ registered' = [registered EXCEPT ![key] = @ \cup globs]
              /\ changedSince' = [changedSince EXCEPT ![key] = @ \ globs]
              /\ call' = [call EXCEPT ![c].pc = "returned"]
    /\ UNCHANGED <<notWatcherVars, watcherClosed>>

\* GetChangedGlobs is called: all candidates when the watcher is closed,
\* otherwise the caller waits for a cookie.
GetChangedGlobsCalled(c, key, candidates) ==
    /\ call[c].pc \in {"idle", "returned"}
    /\ call' = [call EXCEPT ![c] =
                   IF isClosed(watcherClosed)
                   THEN [pc |-> "returned", op |-> "get", hash |-> key, globs |-> candidates,
                         err |-> "nil", changed |-> candidates]
                   ELSE [pc |-> "cookie", op |-> "get", hash |-> key, globs |-> candidates,
                         err |-> "nil", changed |-> {}]]
    /\ UNCHANGED <<notWatcherVars, hashGlobs, globStatus, watcherClosed, registered,
                   changedSince>>

\* GetChangedGlobs after the wait: the error of the wait, or, under the read
\* lock, all candidates for a hash that is not tracked and otherwise the
\* candidates that are not in the hash's set.
GetChangedGlobsReads(c) ==
    /\ call[c].pc = "cookie"
    /\ call[c].op = "get"
    /\ \/ call' = [call EXCEPT ![c].pc = "returned", ![c].err = "cookie"]
       \/ LET globsToCheck == hashGlobs[call[c].hash]
          IN  call' = [call EXCEPT ![c].pc = "returned",
                                   ![c].changed = IF ~globsToCheck.ok THEN call[c].globs
                                                  ELSE call[c].globs \ globsToCheck.set]
    /\ UNCHANGED <<notWatcherVars, hashGlobs, globStatus, watcherClosed, registered,
                   changedSince>>

\* Mutant: a glob that changed stays in the hash's set.
DeleteGlobKept(hashEntry, changed) == hashEntry

\* hashGlobs.Delete(glob) for the changed globs the hash is listed under,
\* and delete(g.hashGlobs, hash) when the set has become empty.
DeleteGlob(hashEntry, changed) ==
    IF ~hashEntry.ok \/ changed = {} THEN hashEntry
    ELSE IF hashEntry.set \ changed = {} THEN NoEntry
    ELSE [ok |-> TRUE, set |-> hashEntry.set \ changed]

\* OnFileWatchEvent: a path outside the repo root is dropped; otherwise
\* every glob of globStatus that matches the path is deleted from globStatus
\* and from the set of each hash listed under it.
OnFileWatchEvent(path) ==
    /\ IF path = OutsidePath
       THEN UNCHANGED <<globStatus, hashGlobs>>
       ELSE LET matching == {glob \in Globs : globStatus[glob].ok /\ Match(glob, path)}
            IN  /\ globStatus' = [glob \in Globs |->
                                     IF glob \in matching THEN NoEntry ELSE globStatus[glob]]
                /\ hashGlobs' = [h \in GlobHashes |->
                                    DeleteGlob(hashGlobs[h],
                                               {glob \in matching : h \in globStatus[glob].set})]
    /\ changedSince' = [h \in GlobHashes |->
                           changedSince[h] \cup
                               {glob \in registered[h] : path # OutsidePath /\ Match(glob, path)}]
    /\ UNCHANGED <<notWatcherVars, watcherClosed, call, registered>>

\* OnFileWatchClosed: setClosed.
OnFileWatchClosed ==
    /\ ~watcherClosed
    /\ watcherClosed' = TRUE
    /\ UNCHANGED <<notWatcherVars, hashGlobs, globStatus, call, registered, changedSince>>

WatcherInit ==
    /\ LogIdle
    /\ SpacesIdle
    /\ RunIdle
    /\ FsIdle
    /\ TarIdle
    /\ RemoteIdle
    /\ GraphIdle
    /\ CmdIdle
    /\ HashIdle
    /\ RerunIdle
    /\ EnvIdle
    /\ ExecIdle
    /\ SummaryIdle
    /\ WatcherStart

WatcherNext ==
    \/ \E c \in Callers, h \in GlobHashes, globs \in SUBSET Globs : WatchGlobsCalled(c, h, globs)
    \/ \E c \in Callers : WatchGlobsRegisters(c)
    \/ \E c \in Callers, h \in GlobHashes, globs \in SUBSET Globs :
          GetChangedGlobsCalled(c, h, globs)
    \/ \E c \in Callers : GetChangedGlobsReads(c)
    \/ \E path \in RepoPaths \cup {OutsidePath} : OnFileWatchEvent(path)
    \/ OnFileWatchClosed

WatcherSpec == WatcherInit /\ [][WatcherNext]_vars

\* ----------------------------------------------------------- spacesClient
\* What the spaces client leaves alone.
notSpacesVars == <<runAllVars, fsVars, tarVars, remoteVars, graphVars, cmdVars, hashVars,
                   rerunVars, envVars, execVars, summaryVars, watcherVars, logVars>>

loopVars == <<pending, firstRequestStarted, loopPc>>
errorVars == <<spaceErrors, errorsOld>>
apiVars == <<apiCalls, completed>>

\* queueRequest: c.wg.Add(1); the send on the unbuffered channel follows.
\* The run creation is queued before any other request.
queueRequest(r) ==
    /\ spacePc[r] = "new"
    /\ closePc = "idle"
    /\ r # CreateRun => spacePc[CreateRun] \notin {"new", "sending"}
    /\ spacesWg' = spacesWg + 1
    /\ spacePc' = [spacePc EXCEPT ![r] = "sending"]
    /\ UNCHANGED <<notSpacesVars, loopVars, runCreated, requestsClosed, runID, errorVars,
                   apiVars, closePc>>

\* Mutant: the first loop starts every request right away.
HoldsBackNever(started) == FALSE

\* The first loop holds a request back once the first one was started.
HoldsBack(started) == started

\* start receives a request: in the first loop the first request gets its
\* goroutine and the others are appended to pending; in the second loop
\* every request gets its goroutine.
startReceives(r) ==
    /\ spacePc[r] = "sending"
    /\ loopPc \in {"first", "rest"}
    /\ IF loopPc = "first" /\ HoldsBack(firstRequestStarted)
       THEN /\ pending' = pending \cup {r}
            /\ spacePc' = [spacePc EXCEPT ![r] = "pending"]
            /\ UNCHANGED firstRequestStarted
       ELSE /\ spacePc' = [spacePc EXCEPT ![r] = "makeURL"]
            /\ firstRequestStarted' = (firstRequestStarted \/ loopPc = "first")
            /\ UNCHANGED pending
    /\ UNCHANGED <<notSpacesVars, spacesWg, loopPc, runCreated, requestsClosed, runID,
                   errorVars, apiVars, closePc>>

\* start finds runCreated closed: the pending requests get their goroutines
\* and the first loop is left.
startFlushes ==
    /\ loopPc = "first"
    /\ runCreated
    /\ spacePc' = [r \in SpaceRequests |-> IF r \in pending THEN "makeURL" ELSE spacePc[r]]
    /\ pending' = {}
    /\ loopPc' = "rest"
    /\ UNCHANGED <<notSpacesVars, spacesWg, firstRequestStarted, runCreated, requestsClosed,
                   runID, errorVars, apiVars, closePc>>

\* start finds the requests channel closed: both loops end.
startEnds ==
    /\ loopPc \in {"first", "rest"}
    /\ requestsClosed
    /\ loopPc' = "ended"
    /\ UNCHANGED <<notSpacesVars, spacePc, spacesWg, pending, firstRequestStarted, runCreated,
                   requestsClosed, runID, errorVars, apiVars, closePc>>

\* makeRequest, makeURL: a request other than the run creation needs the
\* run ID; without it the error is appended and the request is given up.
makeURL(r) ==
    /\ spacePc[r] = "makeURL"
    /\ IF r # CreateRun /\ ~runID
       THEN /\ spacePc' = [spacePc EXCEPT ![r] = "append"]
            /\ UNCHANGED apiCalls
       ELSE /\ spacePc' = [spacePc EXCEPT ![r] = "http"]
            /\ apiCalls' = apiCalls \cup {r}
    /\ UNCHANGED <<notSpacesVars, spacesWg, loopVars, runCreated, requestsClosed, runID,
                   errorVars, completed, closePc>>

\* c.api.JSONPost / JSONPatch returns: with an error, which is appended, or
\* with a response; the run creation then goes on to its onDone handler and
\* any other request is done (c.wg.Done()).
apiReturns(r, ok) ==
    /\ spacePc[r] = "http"
    /\ completed' = completed \cup {r}
    /\ IF ~ok
       THEN /\ spacePc' = [spacePc EXCEPT ![r] = "append"]
            /\ UNCHANGED spacesWg
       ELSE IF r = CreateRun
       THEN /\ spacePc' = [spacePc EXCEPT ![r] = "onDone"]
            /\ UNCHANGED spacesWg
       ELSE /\ spacePc' = [spacePc EXCEPT ![r] = "done"]
            /\ spacesWg' = spacesWg - 1
    /\ UNCHANGED <<notSpacesVars, loopVars, runCreated, requestsClosed, runID, errorVars,
                   apiCalls, closePc>>

\* createRun's onDone: the response is unmarshaled into c.run, or the error
\* is appended.
onDone(ok) ==
    /\ spacePc[CreateRun] = "onDone"
    /\ IF ok
       THEN /\ runID' = TRUE
            /\ spacePc' = [spacePc EXCEPT ![CreateRun] = "closeRunCreated"]
       ELSE /\ spacePc' = [spacePc EXCEPT ![CreateRun] = "appendOnDone"]
            /\ UNCHANGED runID
    /\ UNCHANGED <<notSpacesVars, spacesWg, loopVars, runCreated, requestsClosed, errorVars,
                   apiVars, closePc>>

\* c.errors = append(c.errors, err): the slice is read ...
errorsAppendReads(r) ==
    /\ spacePc[r] \in {"append", "appendOnDone"}
    /\ errorsOld' = [errorsOld EXCEPT ![r] = spaceErrors]
    /\ spacePc' = [spacePc EXCEPT ![r] = IF spacePc[r] = "append" THEN "assign"
                                          ELSE "assignOnDone"]
    /\ UNCHANGED <<notSpacesVars, spacesWg, loopVars, runCreated, requestsClosed, runID,
                   spaceErrors, apiVars, closePc>>

\* ... and the slice with the error at its end is assigned.  makeRequest
\* returns after it (c.wg.Done()); onDone goes on.
errorsAppendAssigns(r) ==
    /\ spacePc[r] \in {"assign", "assignOnDone"}
    /\ spaceErrors' = errorsOld[r] + 1
    /\ IF spacePc[r] = "assign"
       THEN /\ spacePc' = [spacePc EXCEPT ![r] = "done"]
            /\ spacesWg' = spacesWg - 1
       ELSE /\ spacePc' = [spacePc EXCEPT ![r] = "closeRunCreated"]
            /\ UNCHANGED spacesWg
    /\ UNCHANGED <<notSpacesVars, loopVars, runCreated, requestsClosed, runID, errorsOld,
                   apiVars, closePc>>

\* createRun's onDone closes runCreated, and the request is done.
closeRunCreated ==
    /\ spacePc[CreateRun] = "closeRunCreated"
    /\ runCreated' = TRUE
    /\ spacePc' = [spacePc EXCEPT ![CreateRun] = "done"]
    /\ spacesWg' = spacesWg - 1
    /\ UNCHANGED <<notSpacesVars, loopVars, requestsClosed, runID, errorVars, apiVars,
                   closePc>>

\* Close is called once every request of the run was handed to start.
CloseCalled ==
    /\ closePc = "idle"
    /\ \A r \in SpaceRequests : spacePc[r] \notin {"new", "sending"}
    /\ closePc' = "waiting"
    /\ UNCHANGED <<notSpacesVars, spacePc, spacesWg, loopVars, runCreated, requestsClosed,
                   runID, errorVars, apiVars>>

\* c.wg.Wait() comes through: close(c.requests), and Close returns.
CloseReturns ==
    /\ closePc = "waiting"
    /\ spacesWg = 0
    /\ requestsClosed' = TRUE
    /\ closePc' = "returned"
    /\ UNCHANGED <<notSpacesVars, spacePc, spacesWg, loopVars, runCreated, runID, errorVars,
                   apiVars>>

SpacesInit ==
    /\ LogIdle
    /\ RunIdle
    /\ FsIdle
    /\ TarIdle
    /\ RemoteIdle
    /\ GraphIdle
    /\ CmdIdle
    /\ HashIdle
    /\ RerunIdle
    /\ EnvIdle
    /\ ExecIdle
    /\ SummaryIdle
    /\ WatcherIdle
    /\ SpacesStart

SpacesNext ==
    \/ \E r \in SpaceRequests : queueRequest(r)
    \/ \E r \in SpaceRequests : startReceives(r)
    \/ startFlushes
    \/ startEnds
    \/ \E r \in SpaceRequests : makeURL(r)
    \/ \E r \in SpaceRequests, ok \in BOOLEAN : apiReturns(r, ok)
    \/ \E ok \in BOOLEAN : onDone(ok)
    \/ \E r \in SpaceRequests : errorsAppendReads(r)
    \/ \E r \in SpaceRequests : errorsAppendAssigns(r)
    \/ closeRunCreated
    \/ CloseCalled
    \/ CloseReturns

SpacesSpec == SpacesInit /\ [][SpacesNext]_vars

\* Every goroutine that can take a step takes it in the end, and every call
\* to the API returns.
SpacesFairSpec == SpacesInit /\ [][SpacesNext]_vars /\ WF_vars(SpacesNext)

\* ------------------------------------------------------------ grouped logs
\* What the grouped output leaves alone.
notLogVars == <<runAllVars, fsVars, tarVars, remoteVars, graphVars, cmdVars, hashVars,
                rerunVars, envVars, execVars, summaryVars, watcherVars, spacesVars>>

\* Mutant: the channel has room for two entries fewer than there are tasks.
taskCountTooSmall == NumLogTasks - 2

\* The capacity of logChan: len(engine.TaskGraph.Vertices()).
taskCount == NumLogTasks

\* The engine visits task t: execFunc runs exec with the task's own buffers
\* as writers.
logExec(t) ==
    /\ logMainPc = "executing"
    /\ logPc[t] = "waiting"
    /\ logPc' = [logPc EXCEPT ![t] = "send"]
    /\ UNCHANGED <<notLogVars, logChan, logChanClosed, logWriterPc, logContext, logOutput,
                   logMainPc>>

\* The engine passes over task t: no execFunc call, no buffers.
logSkip(t) ==
    /\ logMainPc = "executing"
    /\ logPc[t] = "waiting"
    /\ logPc' = [logPc EXCEPT ![t] = "skipped"]
    /\ UNCHANGED <<notLogVars, logChan, logChanClosed, logWriterPc, logContext, logOutput,
                   logMainPc>>

\* execFunc sends the task's buffers on logChan, which has to have room, and
\* returns.
logSend(t) ==
    /\ logPc[t] = "send"
    /\ Len(logChan) < taskCount
    /\ logChan' = Append(logChan, t)
    /\ logPc' = [logPc EXCEPT ![t] = "done"]
    /\ UNCHANGED <<notLogVars, logChanClosed, logWriterPc, logContext, logOutput, logMainPc>>

\* The writer goroutine receives the next buffers.
logReceive ==
    /\ logWriterPc = "receive"
    /\ logChan # <<>>
    /\ logContext' = Head(logChan)
    /\ logChan' = Tail(logChan)
    /\ logWriterPc' = "stdout"
    /\ UNCHANGED <<notLogVars, logPc, logChanClosed, logOutput, logMainPc>>

\* os.Stdout.Write(outBytes)
logWriteStdout ==
    /\ logWriterPc = "stdout"
    /\ logOutput' = Append(logOutput, <<logContext, "out">>)
    /\ logWriterPc' = "stderr"
    /\ UNCHANGED <<notLogVars, logPc, logChan, logChanClosed, logContext, logMainPc>>

\* os.Stderr.Write(errBytes), and back to receiving.
logWriteStderr ==
    /\ logWriterPc = "stderr"
    /\ logOutput' = Append(logOutput, <<logContext, "err">>)
    /\ logContext' = NoLogContext
    /\ logWriterPc' = "receive"
    /\ UNCHANGED <<notLogVars, logPc, logChan, logChanClosed, logMainPc>>

\* The range over the closed and drained channel ends: logWaitGroup.Done().
logWriterDone ==
    /\ logWriterPc = "receive"
    /\ logChan = <<>>
    /\ logChanClosed
    /\ logWriterPc' = "returned"
    /\ UNCHANGED <<notLogVars, logPc, logChan, logChanClosed, logContext, logOutput, logMainPc>>

\* engine.Execute has returned: close(logChan).
logClose ==
    /\ logMainPc = "executing"
    /\ \A t \in LogTasks : logPc[t] \in {"done", "skipped"}
    /\ logChanClosed' = TRUE
    /\ logMainPc' = "waiting"
    /\ UNCHANGED <<notLogVars, logPc, logChan, logWriterPc, logContext, logOutput>>

\* logWaitGroup.Wait() comes through and RealRun goes on to return.
logWaitReturns ==
    /\ logMainPc = "waiting"
    /\ logWriterPc = "returned"
    /\ logMainPc' = "returned"
    /\ UNCHANGED <<notLogVars, logPc, logChan, logChanClosed, logWriterPc, logContext,
                   logOutput>>

LogInit ==
    /\ RunIdle
    /\ FsIdle
    /\ TarIdle
    /\ RemoteIdle
    /\ GraphIdle
    /\ CmdIdle
    /\ HashIdle
    /\ RerunIdle
    /\ EnvIdle
    /\ ExecIdle
    /\ SummaryIdle
    /\ WatcherIdle
    /\ SpacesIdle
    /\ LogStart

LogNext ==
    \/ \E t \in LogTasks : logExec(t)
    \/ \E t \in LogTasks : logSkip(t)
    \/ \E t \in LogTasks : logSend(t)
    \/ logReceive
    \/ logWriteStdout
    \/ logWriteStderr
    \/ logWriterDone
    \/ logClose
    \/ logWaitReturns

LogSpec == LogInit /\ [][LogNext]_vars

\* The writer goroutine and the main goroutine take the steps they can.
LogFairSpec == LogInit /\ [][LogNext]_vars /\ WF_vars(LogNext)

\* ================================================================ claims
Max(S) == CHOOSE x \in S : \A y \in S : y <= x

Abs(n) == IF n < 0 THEN -n ELSE n

\* The transitive dependencies of t in the task graph.
RECURSIVE Ancestors(_)
Ancestors(t) == deps[t] \cup UNION {Ancestors(d) : d \in deps[t]}

\* exec has been invoked for t.
Started(t) == pc[t] \notin {"waiting", "skipped"}

\* exec (or the dry-run visitor) has returned for t.
Completed(t) == pc[t] \in {"done", "failed"}

\* C1: no task starts before every one of its dependencies in the task graph
\* has completed, at any concurrency.
C1_TopologicalOrder ==
    \A t \in Tasks : Started(t) => \A d \in deps[t] : Completed(d)

C1_Witness ==
    \E t \in Tasks : Cardinality(deps[t]) = 2 /\ pc[t] = "running" /\ concurrency = 2

\* A task has failed: its failure was recorded in its execution summary.
TaskFailed(t) == execution[t].state = "failed"

\* No task that has not started is started in this step.
NoNewStart == \A t \in Tasks : pc[t] = "waiting" => pc'[t] \in {"waiting", "skipped"}

FailedChildCodes == {execution[t].exitCode : t \in {x \in spawned : TaskFailed(x)}}

\* The aggregate the exit code rule asks for when a child failed.
MaxChildExit == Max({Abs(c) : c \in FailedChildCodes})

\* C4: after a run, the aggregate exit code is the maximum of |exit code|
\* over the children that failed, and 0 when no task failed; this is asked
\* of RealRun and of executeTasks alike.
C4_ExitCodeRule ==
    (runPc # "executing" /\ ~dryRun) =>
        /\ FailedChildCodes # {} => exitCode = MaxChildExit /\ legacyExitCode = MaxChildExit
        /\ (\A t \in Tasks : ~TaskFailed(t)) => exitCode = 0 /\ legacyExitCode = 0

\* C4, RealRun alone: its aggregate exit code is the maximum of |exit code|
\* over the children that failed, and 0 when no task failed.
RealRunExitCodeRule ==
    (runPc # "executing" /\ ~dryRun) =>
        /\ FailedChildCodes # {} => exitCode = MaxChildExit
        /\ (\A t \in Tasks : ~TaskFailed(t)) => exitCode = 0

C4_Witness ==
    /\ runPc = "returned"
    /\ ~dryRun
    /\ FailedChildCodes = {SignalExit}
    /\ exitCode = 1
    /\ legacyExitCode = 0

\* An error that is no child exit was returned to the engine.
NonExitErrorReported == \E i \in 1..Len(errs) : errs[i].kind = "other"

C7_CacheHitNoExecution ==
    \A t \in Tasks :
        restored[t] = "hit" =>
            /\ t \notin spawned
            /\ putsOf[t] = 0
            /\ pc[t] = "done"
            /\ execution[t] = [state |-> "cached", exitCode |-> 0, hasExit |-> TRUE]

C7_Witness == \E t \in Tasks : restored[t] = "hit" /\ runPc = "returned"

\* C8: of two tasks of a run with the same hash, at most one spawns a child.
C8_AtMostOneSpawnPerHash ==
    \A t, u \in Tasks :
        (t # u /\ hash[t] = hash[u]) => ~(t \in spawned /\ u \in spawned)

\* C9: once the put of a task's outputs has returned the artifact is in the
\* local cache, so a fetch of its hash hits; in particular no dependent is
\* started before that.
C9_PutCompletedOnReturn ==
    \A t \in Tasks : putsOf[t] > 0 => hash[t] \in store

\* C10: when Shutdown has returned, every put accepted before it was
\* applied to the underlying cache exactly once.
C10_ShutdownDrains ==
    /\ \A h \in Hashes : applied[h] <= accepted[h]
    /\ runPc = "returned" => \A h \in Hashes : applied[h] = accepted[h]

C10_Witness ==
    /\ runPc = "returned"
    /\ \E h \in Hashes : accepted[h] = 2 /\ applied[h] = 2

\* A fetch that has finished and was called after a Put of its hash returned
\* nil, with no other Put of that hash since.
FetchedAfterPut == fetchPc = "done" /\ fetchRes.afterPut.made

\* C11: a put(h, F, d) followed by fetch(h) reports a hit, restores exactly
\* the files of F with their contents, and returns the duration d.
C11_RoundTrip ==
    FetchedAfterPut =>
        /\ fetchRes.hit
        /\ ~fetchRes.err
        /\ fetchRes.duration = fetchRes.afterPut.duration
        /\ fetchRes.copied = fetchRes.afterPut.tree

\* C11, for a put of at least one file whose metadata was written: the fetch
\* hits, returns d, and every file of F is back with the content it was put with.
RoundTripOfFiles ==
    (/\ FetchedAfterPut
     /\ FilesOf(fetchRes.afterPut.tree) # {}
     /\ fetchRes.afterPut.metaWritten) =>
        /\ fetchRes.hit
        /\ ~fetchRes.err
        /\ fetchRes.duration = fetchRes.afterPut.duration
        /\ \A f \in FilesOf(fetchRes.afterPut.tree) :
            /\ fetchRes.copied[f] = fetchRes.afterPut.tree[f]
            /\ workTree[f] = fetchRes.afterPut.tree[f]

C11_Witness ==
    /\ FetchedAfterPut
    /\ fetchRes.afterPut.tree = NoFiles
    /\ fetchRes.afterPut.metaWritten
    /\ ~fetchRes.hit

\* A finished fetch reported a miss and restored nothing.
FetchMissed == ~fetchRes.hit /\ ~fetchRes.err /\ fetchRes.copied = NoFiles

\* C12: a fetch of h that runs concurrently with a put of h either misses
\* or restores a complete artifact together with its metadata.
C12_PutIsAtomic ==
    fetchPc = "done" =>
        \/ FetchMissed
        \/ /\ fetchRes.hit
           /\ ~fetchRes.err
           /\ [tree |-> fetchRes.copied, duration |-> fetchRes.duration]
                  \in artifacts[fetchRes.hash]

\* C15: a fetch that finds the cached files but a missing or corrupted
\* metadata file reports no hit and no error.
C15_BadMetaIsMiss ==
    (/\ fetchPc = "done"
     /\ FilesOf(fetchRes.copied) # {}
     /\ fetchRes.meta \in {"absent", "partial"}) =>
        ~fetchRes.hit /\ ~fetchRes.err

\* The tar holds an entry whose path escapes the restore root.
TarEscapes == \E i \in 1..Len(tarEntries) : tarEntries[i].escapes

C14_NoFallbackToExecution ==
    \A t \in Tasks :
        restored[t] = "error" =>
            /\ t \notin spawned
            /\ execution[t].state \notin {"executed", "built"}

\* C16: however many concurrent fetches and puts observe that remote caching
\* is disabled, the warning is logged exactly once in the run.
C16_WarnedExactlyOnce ==
    /\ warnings <= 1
    /\ onceDone => warnings = 1
    /\ (\A r \in Requests : reqPc[r] = "done") /\ ~useRemote => warnings = 1

C16_Witness ==
    /\ warnings = 1
    /\ onceDone
    /\ Cardinality({r \in Requests : reqPc[r] = "callback"}) = 2

\* ----------------------------------------------- the task graph builder
\* Task a depends on task b: b is a task dependency of a in a's package, a
\* topological dependency of a in a package that a's package depends on, or a
\* package task the pipeline makes a depend on.
DependsOn(a, b) ==
    \/ a[1] = b[1] /\ b[2] \in taskDepsOf[a[2]]
    \/ b[1] \in topoGraph[a[1]] /\ b[2] \in topoDepsOf[a[2]]
    \/ <<a, b>> \in packageTaskDeps

\* The least set of tasks that holds S and every task a task of it depends on.
RECURSIVE Grow(_)
Grow(S) ==
    LET next == S \cup {b \in TaskIds : \E a \in S : DependsOn(a, b)}
    IN  IF next = S THEN S ELSE Grow(next)

\* The tasks reachable from the requested tasks of the filtered packages.
ReachableTasks == Grow({t \in TaskIds : t[1] \in filteredPkgs /\ t[2] \in targets})

\* runOperation got a task graph from buildTaskGraph.
GraphBuilt == graphPc \in {"built", "rebuilt", "executed"}

Requested == {t \in TaskIds : t[1] \in filteredPkgs /\ t[2] \in targets}

\* C20: with only set, the task graph contains just the requested tasks of
\* the filtered packages, each with no edge but the one to ROOT, and these
\* are the tasks that run.
C20_OnlyRequestedTasks ==
    (GraphBuilt /\ tasksOnly) =>
        /\ taskNodes = Requested
        /\ taskEdges = {<<t, ROOT_NODE_NAME>> : t \in Requested}
        /\ graphPc = "executed" => visited = Requested

\* A run with only went through although a requested task depends on a task
\* that is not requested.
C20_Witness ==
    /\ graphPc = "executed"
    /\ tasksOnly
    /\ visited = Requested
    /\ \E t \in Requested : \E d \in TaskIds \ Requested : DependsOn(t, d)

\* The graph to build has a task that depends on a persistent task.
DependsOnPersistent ==
    /\ ~tasksOnly
    /\ \E a \in ReachableTasks : \E b \in persistent : DependsOn(a, b)

\* C17: a task graph in which a task depends on a persistent task is
\* rejected before any task runs, with an error that names the persistent
\* task and a task of the graph that depends on it, however the dependent
\* came into the graph.
C17_PersistentRejected ==
    (graphPc # "building" /\ DependsOnPersistent) =>
        /\ graphPc = "rejected"
        /\ visited = {}
        /\ prepareErr.kind = "persistent"
        /\ prepareErr.task \in persistent
        /\ prepareErr.dependent \in ReachableTasks
        /\ DependsOn(prepareErr.dependent, prepareErr.task)

\* A graph with a dependency on a persistent task was built and the
\* persistent task was visited, its dependent being a task that was not requested.
C17_Witness ==
    /\ graphPc = "executed"
    /\ DependsOnPersistent
    /\ \E b \in persistent \cap visited :
          \E a \in visited \ Requested : DependsOn(a, b)

\* The graph to build has a cycle: a task of it depends on a task from which
\* it can be reached.
HasCycle ==
    /\ ~tasksOnly
    /\ \E t \in ReachableTasks : \E u \in TaskIds : DependsOn(t, u) /\ t \in Grow({u})

\* C18: a task graph with a cycle, a task that depends on itself included, is
\* rejected and no task is executed.
C18_CycleRejected ==
    (graphPc # "building" /\ HasCycle) => (graphPc = "rejected" /\ visited = {})

\* A graph was rejected for a cycle through several tasks, none of which
\* depends on itself.
C18_Witness ==
    /\ graphPc = "rejected"
    /\ prepareErr.kind = "cycle"
    /\ visited = {}
    /\ \A t \in TaskIds : ~DependsOn(t, t)

\* Task a depends on task b by what the pipeline declares for a: a task
\* dependency in a's package or a package task.
DeclaredDep(a, b) ==
    \/ a[1] = b[1] /\ b[2] \in taskDepsOf[a[2]]
    \/ <<a, b>> \in packageTaskDeps

\* Task a depends on task b through a topological dependency over the
\* workspace graph as it was discovered.
TopologicalDep(a, b) == b[1] \in workspaceGraph[a[1]] /\ b[2] \in topoDepsOf[a[2]]

\* runOperation built the graph a run with parallel executes.
ParallelBuilt == parallel /\ graphPc \in {"rebuilt", "executed"}

DefinedNowhere(task) == \A key \in pipelineKeys : key[2] # task

\* C22: a run that requests a task name defined nowhere in the pipeline fails
\* with exit code 1, and no task is hashed or executed.
C22_UnknownTaskFails ==
    (cmdPc # "start" /\ \E task \in cliTargets : DefinedNowhere(task)) =>
        /\ cmdPc \in {"failed", "exited"}
        /\ ~tasksHashed
        /\ ~tasksRun
        /\ cmdPc = "exited" => cmdExit = 1

\* A run exited with 1 for a missing task while another requested task is
\* defined, by a package-task key only.
C22_Witness ==
    /\ cmdPc = "exited"
    /\ cmdExit = 1
    /\ ~tasksHashed
    /\ \E task \in cliTargets : DefinedNowhere(task)
    /\ \E task \in cliTargets : BareKey(task) \notin pipelineKeys /\ ~DefinedNowhere(task)

\* ---------------------------------------------------------- the global hash
\* Both runs have their global hash.
BothHashed == \A r \in Runs : globalHash[r] # NoHash

\* The two runs are in the given env modes and have the same global files.
InModes(m1, m2) ==
    /\ hashInputs[1].envMode = m1
    /\ hashInputs[2].envMode = m2
    /\ hashInputs[1].globalFileHashMap = hashInputs[2].globalFileHashMap

\* C25: in loose mode the hash depends neither on the pass-through list nor
\* on the values of the variables; in strict mode it changes exactly when
\* the names of the list change, and not with the values.
C25_PassThroughInvariance ==
    BothHashed =>
        /\ InModes("loose", "loose") => globalHash[1] = globalHash[2]
        /\ InModes("strict", "strict") =>
              (globalHash[1] = globalHash[2]
                  <=> hashInputs[1].envVarPassthroughs.names
                        = hashInputs[2].envVarPassthroughs.names)

\* Two loose runs with different lists and different values have one hash.
C25_Witness ==
    /\ BothHashed
    /\ InModes("loose", "loose")
    /\ hashInputs[1].envVarPassthroughs.names # hashInputs[2].envVarPassthroughs.names
    /\ environ[1] # environ[2]
    /\ globalHash[1] = globalHash[2]

\* C26: in infer mode a non-null list hashes as strict mode with that list,
\* and a null list hashes as loose mode.
C26_InferEquivalence ==
    BothHashed =>
        /\ (InModes("infer", "strict")
                /\ ~hashInputs[1].envVarPassthroughs.isNil
                /\ hashInputs[2].envVarPassthroughs = hashInputs[1].envVarPassthroughs)
              => globalHash[1] = globalHash[2]
        /\ (InModes("infer", "loose") /\ hashInputs[1].envVarPassthroughs.isNil)
              => globalHash[1] = globalHash[2]

\* The part of C26 that holds: infer with a list is strict with that list.
InferWithListIsStrict ==
    (BothHashed /\ InModes("infer", "strict")
        /\ ~hashInputs[1].envVarPassthroughs.isNil
        /\ hashInputs[2].envVarPassthroughs.names = hashInputs[1].envVarPassthroughs.names)
      => globalHash[1] = globalHash[2]

\* An infer run with a null list and a loose run were hashed, and the hashes
\* differ.
C26_Witness ==
    /\ BothHashed
    /\ InModes("infer", "loose")
    /\ hashInputs[1].envVarPassthroughs.isNil
    /\ globalHash[1] # globalHash[2]

\* ------------------------------------------------------ two runs of a task
\* The second run is over.
BothRan == runNo = NumRuns /\ rerunPc = "finished"

C24_NoConfigNeverCached ==
    turboConfig = "absent" =>
        /\ cacheArtifacts = {}
        /\ \A r \in Runs :
              /\ cacheStatus[r] \in {"none", "bypass"}
              /\ (r < runNo \/ (r = runNo /\ rerunPc = "finished")) =>
                    (cacheStatus[r] = "bypass" /\ r \in executedIn)

\* Without a turbo.json two successful runs with the same inputs both executed.
C24_Witness ==
    /\ BothRan
    /\ turboConfig = "absent"
    /\ hashInputs[1] = hashInputs[2]
    /\ environ[1] = environ[2]
    /\ executedIn = Runs
    /\ succeededIn = Runs

\* ------------------------------------------------- the child's environment
\* The names the configuration declares, as hashed or as pass-through.
DeclaredNames == globalEnv \cup taskEnv \cup globalPassThroughEnv \cup PassThroughEnv

CacheAndProcessesUntouched ==
    /\ spawned = {}
    /\ children = {}
    /\ \A t \in Tasks : restored[t] = "none" /\ putsOf[t] = 0
    /\ \A w \in WorkerIds : requests[w] \notin Hashes
    /\ \A h \in Hashes : accepted[h] = 0 /\ applied[h] = 0
    /\ store = {}

\* C28: a dry run never starts a child process and never fetches from or
\* writes to the cache; a task it has visited without an error has had the
\* existence of its hash probed, and no other task has.
C28_DryRunOnlyProbes ==
    dryRun =>
        /\ CacheAndProcessesUntouched
        /\ \A t \in Tasks : (pc[t] = "done") <=> (cacheState[t] # "unprobed")
        /\ \A t \in Tasks : pc[t] \in {"waiting", "dry"} \cup Terminal

\* A dry run has returned after probing every task.
C28_Witness ==
    /\ dryRun
    /\ runPc = "returned"
    /\ \A t \in Tasks : pc[t] = "done" /\ cacheState[t] = "missing"
    /\ CacheAndProcessesUntouched

\* ------------------------------------------------------ execContext.exec
\* C29: when hashing the task failed, the failure is written as a hashing
\* error, the command is not run, and the cache is neither looked up nor
\* written for the task.
C29_HashFailureStopsTask ==
    (hashFails /\ execPc # "start") =>
        /\ hashingErrors = 1
        /\ ~commandRun
        /\ lookedUp = {}
        /\ savedOutputs = {}

\* A failed hashing is written to the ui as one hashing error.
HashFailureIsLogged == (execPc # "start") => (hashingErrors = IF hashFails THEN 1 ELSE 0)

\* Hashing failed, and the task was nevertheless looked up, run and saved.
C29_Witness ==
    /\ hashFails
    /\ execPc = "returned"
    /\ hashingErrors = 1
    /\ commandRun
    /\ lookedUp # {}
    /\ savedOutputs # {}

\* ------------------------------------------------------- RealRun.execFunc
\* The number of records of task t in the run summary.
RecordsOf(t) == Cardinality({i \in 1..Len(summaries) : summaries[i] = t})

\* The worker of task t has added its record.
HasAppended(t) == outcome[t] \in WasRun /\ summaryPc[t] \in {"unlock", "close", "done"}

\* C30: a task that was run has exactly one record in the run summary once
\* its worker has added it, and none before; a task that was not run has
\* none; no record is lost or doubled by workers finishing together.
C30_OneRecordPerRunTask ==
    \A t \in SummaryTasks :
        /\ RecordsOf(t) = IF HasAppended(t) THEN 1 ELSE 0
        /\ closedTasks[t] = IF outcome[t] \in WasRun /\ summaryPc[t] = "done" THEN 1 ELSE 0

\* Every task was run, all workers are done and each has its one record,
\* in an order other than the tasks' own.
C30_Witness ==
    /\ \A t \in SummaryTasks : outcome[t] \in WasRun /\ summaryPc[t] = "done"
    /\ Len(summaries) = NumSummaryTasks
    /\ \A t \in SummaryTasks : RecordsOf(t) = 1
    /\ summaries[1] = NumSummaryTasks

\* ------------------------------------------------- saving after success
\* The child of t was started and exited with 0.
ExitedSuccessfully(t) ==
    /\ t \in spawned
    /\ t \notin children
    /\ taskErr[t] = NoErr
    /\ execution[t].state \in {"executed", "built"}

\* C31: outputs are handed to the cache only for a task whose child exited
\* successfully, so every artifact of the store and every cache hit goes
\* back to a successful execution with that hash.
C31_SavedOnlyAfterSuccess ==
    /\ \A t \in Tasks : putsOf[t] > 0 => ExitedSuccessfully(t)
    /\ \A h \in Hashes :
          (accepted[h] > 0 \/ h \in store) =>
              \E t \in Tasks : hash[t] = h /\ ExitedSuccessfully(t) /\ putsOf[t] > 0
    /\ \A t \in Tasks :
          restored[t] = "hit" =>
              \E u \in Tasks \ {t} : hash[u] = hash[t] /\ ExitedSuccessfully(u)

\* A task's child failed and nothing was saved for it, while another task
\* was built and saved, and a third one hit the artifact of that one.
C31_Witness ==
    /\ \E f \in Tasks :
          /\ f \in spawned
          /\ execution[f].state = "failed"
          /\ putsOf[f] = 0
          /\ hash[f] \notin store
    /\ \E t, u \in Tasks :
          /\ restored[t] = "hit"
          /\ hash[u] = hash[t]
          /\ putsOf[u] > 0

\* ------------------------------------------------------------ GlobWatcher
\* Caller c's GetChangedGlobs returns a list in this step.
GetReturnsList(c) ==
    /\ call'[c] # call[c]
    /\ call'[c].pc = "returned"
    /\ call'[c].op = "get"
    /\ call'[c].err = "nil"

\* C32: a glob that was registered for a hash and has seen a matching file
\* change since is in every list GetChangedGlobs returns for that hash and
\* candidates holding it, until WatchGlobs registers it for the hash again.
C32_ChangedStaysChanged ==
    [][\A c \in Callers :
          GetReturnsList(c) =>
              (call'[c].globs \cap changedSince[call'[c].hash]) \subseteq call'[c].changed]_vars

\* GetChangedGlobs has told a changed glob from an unchanged one of a hash
\* that is still tracked.
C32_Witness ==
    \E c \in Callers :
        /\ ~watcherClosed
        /\ call[c].pc = "returned"
        /\ call[c].op = "get"
        /\ call[c].err = "nil"
        /\ hashGlobs[call[c].hash].ok
        /\ call[c].changed \cap changedSince[call[c].hash] # {}
        /\ call[c].globs \ call[c].changed # {}

\* Caller c starts a call in this step.
CallStarts(c) ==
    /\ call[c].pc \in {"idle", "returned"}
    /\ call'[c] # call[c]

C34_NoEmptyTrackedHash ==
    \A h \in GlobHashes : hashGlobs[h].ok => hashGlobs[h].set # {}

\* A file event never empties the set of a hash that stays tracked.
EventsUntrackEmptied ==
    [][(\E path \in RepoPaths : OnFileWatchEvent(path)) =>
          \A h \in GlobHashes :
              (hashGlobs'[h].ok /\ hashGlobs'[h].set = {}) => hashGlobs'[h] = hashGlobs[h]]_vars

\* A hash is tracked with an empty set.
C34_Witness ==
    \E h \in GlobHashes : hashGlobs[h].ok /\ hashGlobs[h].set = {}

\* C39: a hash is listed under a glob in globStatus exactly when the glob is
\* in the hash's set in hashGlobs.
C39_MapsConsistent ==
    \A h \in GlobHashes, glob \in Globs :
        (globStatus[glob].ok /\ h \in globStatus[glob].set)
            <=> (hashGlobs[h].ok /\ glob \in hashGlobs[h].set)

\* A glob of a hash's set has the hash listed under it.
HashGlobsAreListed ==
    \A h \in GlobHashes, glob \in Globs :
        (hashGlobs[h].ok /\ glob \in hashGlobs[h].set)
            => (globStatus[glob].ok /\ h \in globStatus[glob].set)

\* A hash is listed under a glob although it is no longer tracked at all.
C39_Witness ==
    \E h \in GlobHashes, glob \in Globs :
        /\ globStatus[glob].ok
        /\ h \in globStatus[glob].set
        /\ ~hashGlobs[h].ok

\* ----------------------------------------------------------- spacesClient
\* The requests that have been given their goroutine.
Dequeued == {r \in SpaceRequests : spacePc[r] \notin {"new", "sending", "pending"}}

\* C35: no request other than the first is given its goroutine or handed to
\* the API before the API call of the first one has returned; until then
\* the others are pending.
C35_OthersWaitForFirst ==
    \A r \in SpaceRequests \ {CreateRun} :
        (r \in Dequeued \/ r \in apiCalls) =>
            /\ CreateRun \in completed
            /\ runCreated

\* The run was created while the other requests were pending, and they were
\* handed to the API afterwards.
C35_Witness ==
    /\ CreateRun \in completed
    /\ runCreated
    /\ pending = {}
    /\ firstRequestStarted
    /\ loopPc = "rest"
    /\ \A r \in SpaceRequests \ {CreateRun} : r \in apiCalls

\* C36: Close returns in the end, and by then every request of the run has
\* had its goroutine and is done.
C36_CloseReturns ==
    <>(closePc = "returned" /\ \A r \in SpaceRequests : spacePc[r] = "done")

\* When the run creation succeeded, Close has returned only after every
\* request was done.
CloseAfterAllDone ==
    (closePc = "returned" /\ runCreated) => \A r \in SpaceRequests : spacePc[r] = "done"

\* The run creation failed, the other requests are pending for good, and
\* Close waits on a wait group that nothing will bring to zero.
C36_Witness ==
    /\ closePc = "waiting"
    /\ spacePc[CreateRun] = "done"
    /\ ~runCreated
    /\ pending = SpaceRequests \ {CreateRun}
    /\ spacesWg = NumSpaceRequests - 1
    /\ ~ENABLED SpacesNext

\* The requests whose goroutine is in an append to c.errors.
Appending == {r \in SpaceRequests : spacePc[r] \in {"assign", "assignOnDone"}}

\* C40: at most one request goroutine is in an append to c.errors.
C40_OneAppendAtATime == Cardinality(Appending) <= 1

\* Two request goroutines are in their append with the same slice read.
C40_Witness ==
    \E r, q \in SpaceRequests :
        /\ r # q
        /\ r \in Appending
        /\ q \in Appending
        /\ errorsOld[r] = errorsOld[q]

\* ----------------------------------------------- puts and the Shutdown
\* C37: once Shutdown has closed the requests channel no task is left that
\* could still call Put: every task's exec has returned or was passed over.
C37_NoPutAfterShutdown ==
    closed =>
        /\ \A t \in Tasks : pc[t] \in Terminal
        /\ \A h \in Hashes :
              accepted[h] = Cardinality({t \in Tasks : hash[t] = h /\ putsOf[t] > 0})

\* Shutdown has started after a fail-fast stop: one task failed, another had
\* put its outputs before, and a third was never started.
C37_Witness ==
    /\ closed
    /\ errored
    /\ ~continueOnError
    /\ \E t \in Tasks : pc[t] = "failed"
    /\ \E t \in Tasks : putsOf[t] > 0
    /\ \E t \in Tasks : pc[t] = "skipped"

\* ------------------------------------------------------------ grouped logs
\* The positions of the output at which task t's buffers are.
WrittenAt(t, stream) == {i \in 1..Len(logOutput) : logOutput[i] = <<t, stream>>}

\* Task t's output is there as one block: stdout once and stderr right
\* after it.
OneBlock(t) ==
    /\ Cardinality(WrittenAt(t, "out")) = 1
    /\ Cardinality(WrittenAt(t, "err")) = 1
    /\ \E i \in WrittenAt(t, "out") : i + 1 \in WrittenAt(t, "err")

\* C38: a task's buffered output is never written twice nor split by
\* another task's output; a worker that hands over its buffers finds room in
\* the channel; and when RealRun is past the wait every task that was
\* visited has its output written as one block.
C38_GroupedOnceContiguous ==
    /\ \A t \in LogTasks :
          /\ Cardinality(WrittenAt(t, "out")) <= 1
          /\ \A i \in WrittenAt(t, "err") : i > 1 /\ logOutput[i - 1] = <<t, "out">>
          /\ Cardinality(WrittenAt(t, "err")) <= 1
          /\ logPc[t] = "send" => Len(logChan) < taskCount
    /\ logMainPc = "returned" =>
          \A t \in LogTasks : IF logPc[t] = "done" THEN OneBlock(t)
                              ELSE WrittenAt(t, "out") \cup WrittenAt(t, "err") = {}

\* RealRun gets past the wait for the writer in the end.
GroupedRunReturns == <>(logMainPc = "returned")

\* The run is past the wait, every task was visited, and their blocks were
\* written in another order than the tasks' own.
C38_Witness ==
    /\ logMainPc = "returned"
    /\ \A t \in LogTasks : logPc[t] = "done" /\ OneBlock(t)
    /\ logOutput[1] = <<NumLogTasks, "out">>
====
